---------------------------- MODULE Spec2Model ----------------------------
(***************************************************************************)
(* Serial transport core of the Universal Hardware Debugger and Serial     *)
(* Monitor: the line framing of DataParser (src/src/serial/parser.py), the *)
(* read and write pumps, reconnection and send of SerialConnection and the *)
(* connection table of SerialConnectionManager                             *)
(* (src/src/serial/connection.py).                                         *)
(*                                                                         *)
(* Four specifications share this module:                                  *)
(*   SpecParser    DataParser.process_data fed a byte stream in chunks     *)
(*   SpecPump      the data path of SerialConnection._read_loop            *)
(*   Spec          one SerialConnection: pumps, stall timer, retry timers  *)
(*   SpecRegistry  SerialConnectionManager with two concurrent callers     *)
(***************************************************************************)
EXTENDS Integers, Sequences, FiniteSets, TLC

VARIABLES
    \* ---- DataParser and the data path of _read_loop
    stream,         \* the bytes the device sends, in order
    pos,            \* how many bytes of stream have been read / fed so far
    nchunks,        \* how many chunks (reads) delivered them
    last_n,         \* the size of the last chunk
    parser_buffer,  \* DataParser.buffer
    buffer,         \* the local bytearray `buffer` of _read_loop
    lines_out,      \* the messages returned / the data_received events, in order
    max_buffer_size,\* the buffer limit in force (MAX_BUFFER_SIZE)
    \* ---- one SerialConnection
    connected,          \* self.connected
    running,            \* self.running
    serial,             \* self.serial: "none", "open" (is_open) or "closed"
    auto_reconnect,     \* self.auto_reconnect
    reconnect_attempts, \* self.reconnect_attempts
    write_queue,        \* self.write_queue, a FIFO of [id, data]
    stats,              \* self.stats
    stall_armed,        \* self.stalled_check_timer is pending
    pc,                 \* where each thread stands
    cerr,               \* consecutive_errors of the read and of the write pump
    \* ---- what the connection did, as its environment sees it
    written,            \* the ids of the items written to the port, in order
    accepted,           \* the ids of the items send() accepted, in order
    send_result,        \* what the last send() returned ("none" before any)
    ev_reconnect,       \* the attempt numbers of the reconnect_attempt events
    ev_status,          \* the arguments of the connection_status_changed events
    ev_error,           \* how many error_occurred events were emitted
    ev_open_error,      \* the error events of open(): the exception and the class emitted
    open_result,        \* what open() returned ("none" before it returns)
    ev_data,            \* how many data_received events were emitted
    opened,             \* open() has been called on this object
    nsends,             \* how many send() calls were made
    nfaults,            \* how many I/O exceptions the port has raised
    ncloses,            \* how many close() calls were made
    \* ---- SerialConnectionManager
    objs,               \* the SerialConnection objects created so far
    connections,        \* self.connections: port -> index in objs, 0 if absent
    available,          \* the ports serial.tools.list_ports.comports() lists
    ev_manager,         \* how many connection_added / connection_removed events
    cpc,                \* where each caller of the manager stands
    cport,              \* the port argument of the call in progress
    cbaud,              \* the baud_rate argument of the call in progress
    cobj,               \* the connection a caller has created, or is sending to
    cres,               \* what each caller's last call returned
    clog,               \* the error the last open_connection of a caller logged
    ctodo,              \* restore_connections: the descriptors still to open
    cdescs,             \* the list restore_connections was called with
    copens,             \* the open_connection calls restore_connections made
    bcast,              \* broadcast_data: its iterator over self.connections
    bsends,             \* the connections each caller's broadcast_data calls met
    bresult,            \* what a caller's broadcast_data returned ("none" before)
    nbroadcasts,        \* how many broadcast_data calls were made
    \* DeviceManager (src/src/devices/manager.py), for one port
    device,             \* the record of the port in self.devices, if there is one
    connection_history, \* self.connection_history[port]
    clock,              \* time.time(), in seconds
    nevents,            \* how many events were recorded for the port
    flaky_result,       \* what the last _is_device_flaky(port) returned
    device_history,     \* device["connection_history"] of the port's record
    flagged,            \* line 271 has set is_flaky on a record of the port
    \* ---- the SerialConnection again: time, and what its threads hold locally
    now,                \* datetime.now(), in seconds
    last_activity,      \* self.stats["last_activity"]
    send_errors,        \* the stats["errors"] that send() has read at line 209
                        \* and not yet stored back; -1 outside that line
    error_run,          \* the errors of each pump in a row: since its last
                        \* error-free operation or call of _attempt_reconnect
    stale               \* the pump threads of earlier open() calls that are
                        \* alive and no longer held in read_thread / write_thread

parserVars == <<stream, pos, nchunks, last_n, parser_buffer, buffer, lines_out, max_buffer_size>>

connVars == <<connected, running, serial, auto_reconnect, reconnect_attempts,
              write_queue, stats, stall_armed, pc, cerr>>

histVars == <<written, accepted, send_result, ev_reconnect, ev_status, ev_error,
              ev_open_error, open_result, ev_data, opened, nsends, nfaults, ncloses>>

callVars == <<cpc, cport, cbaud, cobj, cres, clog>>

restoreVars == <<ctodo, cdescs, copens>>

bcastVars == <<bcast, bsends, bresult, nbroadcasts>>

regVars == <<objs, connections, available, ev_manager, callVars, restoreVars, bcastVars>>

trackerVars == <<device, connection_history, clock, nevents, flaky_result,
                 device_history, flagged>>

watchVars == <<now, last_activity, send_errors, error_run, stale>>

mgrVars == <<regVars, trackerVars, watchVars>>

\* what open() reported
openHist == <<ev_open_error, open_result>>

vars == <<parserVars, connVars, histVars, regVars, trackerVars, watchVars>>

-----------------------------------------------------------------------------
(* Bytes.  A byte of a buffer is a record [v |-> value, i |-> index]: v is  *)
(* the byte the program sees, i the position at which the byte was read    *)
(* from the port (history, used only to state ordering).                   *)

\* SerialConnection.MAX_BUFFER_SIZE = 1024 * 1024
MAX_BUFFER_SIZE == 1048576

\* self.serial.read(1024)
READ_SIZE == 1024

CR == 13
LF == 10

\* The byte values streams are drawn from: two letters, the two terminator
\* bytes, and 255, which is never valid UTF-8.
Alphabet == {65, 66, CR, LF, 255}

\* b"AT+GMR\r\nOK\r\n"
AtGmrStream == <<65, 84, 43, 71, 77, 82, 13, 10, 79, 75, 13, 10>>

\* "AT+GMR" and "OK" as code points
AtGmrLines == << <<65, 84, 43, 71, 77, 82>>, <<79, 75>> >>

\* b"ESP32 v1.0\r\n"
Esp32Stream == <<69, 83, 80, 51, 50, 32, 118, 49, 46, 48, 13, 10>>

MaxStreamLen == 4

RECURSIVE SeqsUpTo(_, _)
SeqsUpTo(S, n) ==
    IF n = 0 THEN {<<>>}
    ELSE LET shorter == SeqsUpTo(S, n - 1)
         IN  shorter \cup {Append(s, x) : s \in {t \in shorter : Len(t) = n - 1}, x \in S}

Tag(bytes, from) == [k \in 1..Len(bytes) |-> [v |-> bytes[k], i |-> from + k]]

Min(S) == CHOOSE x \in S : \A y \in S : x <= y

-----------------------------------------------------------------------------
(* DataParser, text mode                                                   *)

\* bytes.decode("utf-8", errors="replace") on the model's alphabet: an ASCII
\* byte is its own code point, the invalid byte 0xFF becomes U+FFFD.
DecodeByte(b) == IF b < 128 THEN b ELSE 65533

Decode(cells) == [k \in 1..Len(cells) |-> DecodeByte(cells[k].v)]

HasByte(buf, b) == \E k \in 1..Len(buf) : buf[k].v = b

HasCRLF(buf) == \E k \in 1..(Len(buf) - 1) : buf[k].v = CR /\ buf[k + 1].v = LF

FirstByte(buf, b) == Min({k \in 1..Len(buf) : buf[k].v = b})

FirstCRLF(buf) == Min({k \in 1..(Len(buf) - 1) : buf[k].v = CR /\ buf[k + 1].v = LF})

\* bytearray.split(sep, 1) at index k of a separator of length n
SplitAt(buf, k, n) ==
    [line |-> SubSeq(buf, 1, k - 1), rest |-> SubSeq(buf, k + n, Len(buf))]

\* One iteration of the while loop of _process_text: \r\n anywhere in the
\* buffer is preferred, then the first \n, then the first \r.
TextSplit(buf) ==
    IF HasCRLF(buf) THEN SplitAt(buf, FirstCRLF(buf), 2)
    ELSE IF HasByte(buf, LF) THEN SplitAt(buf, FirstByte(buf, LF), 1)
    ELSE SplitAt(buf, FirstByte(buf, CR), 1)

\* ProcessText with each line put in front of the list instead of appended
RECURSIVE ProcessTextReversed(_)
ProcessTextReversed(buf) ==
    IF HasByte(buf, LF) \/ HasByte(buf, CR)
    THEN LET s == TextSplit(buf)
             r == ProcessTextReversed(s.rest)
         IN  [lines |-> r.lines \o <<s.line>>, buffer |-> r.buffer]
    ELSE [lines |-> <<>>, buffer |-> buf]

\* _process_text (lines 94-114)
RECURSIVE ProcessText(_)
ProcessText(buf) ==
    IF HasByte(buf, LF) \/ HasByte(buf, CR)
    THEN LET s == TextSplit(buf)
             r == ProcessText(s.rest)
         IN  [lines |-> <<s.line>> \o r.lines, buffer |-> r.buffer]
    ELSE [lines |-> <<>>, buffer |-> buf]

\* process_data: the data is appended to self.buffer, then the buffer is split
ProcessData(pbuf, data) == ProcessText(pbuf \o data)

Texts(ls) == [k \in 1..Len(ls) |-> Decode(ls[k])]

-----------------------------------------------------------------------------
(* The state of a SerialConnection after __init__                          *)

\* self.max_reconnect_attempts = 5
max_reconnect_attempts == 5

\* max_consecutive_errors = 3 in _read_loop and in _write_loop
max_consecutive_errors == 3

MaxSends == 2
MaxFaults == 3
MaxStalls == 1
MaxCloses == 2
MaxReadBytes == 1

Pumps == {"read", "write"}
\* The threads of the threading.Timer objects of line 413, one at a time: a
\* thread whose attempt fails while the timer is taken waits for it
Timers == {"t1"}
Threads == {"api", "stall"} \cup Pumps \cup Timers

\* The label a thread returns to when _attempt_reconnect returns
Ret(t) == IF t \in Pumps THEN "loop" ELSE IF t = "stall" THEN "idle" ELSE "free"

InitStats ==
    [bytes_received |-> 0, bytes_sent |-> 0, packets_received |-> 0,
     packets_sent |-> 0, errors |-> 0, reconnect_attempts |-> 0,
     stalled_detected |-> 0]

\* __init__ (lines 34-80)
InitConnection ==
    /\ connected = FALSE
    /\ running = FALSE
    /\ serial = "none"
    /\ auto_reconnect \in BOOLEAN
    /\ reconnect_attempts = 0
    /\ write_queue = <<>>
    /\ stats = InitStats
    /\ stall_armed = FALSE
    /\ pc = [t \in Threads |->
               IF t \in Pumps THEN "off" ELSE IF t \in Timers THEN "free" ELSE "idle"]
    /\ cerr = [t \in Pumps |-> 0]
    /\ written = <<>>
    /\ accepted = <<>>
    /\ send_result = "none"
    /\ ev_reconnect = <<>>
    /\ ev_status = <<>>
    /\ ev_error = 0
    /\ ev_open_error = <<>>
    /\ open_result = "none"
    /\ ev_data = 0
    /\ opened = FALSE
    /\ nsends = 0
    /\ nfaults = 0
    /\ ncloses = 0
    /\ now = 0
    /\ last_activity = 0
    /\ send_errors = -1
    /\ error_run = [t \in Pumps |-> 0]
    /\ stale = [t \in Pumps |-> 0]

-----------------------------------------------------------------------------
(* The state of a SerialConnectionManager after __init__ (lines 473-478)   *)

Ports == {"COM3", "COM4"}

Callers == {"c1", "c2"}

MaxConns == 2

\* self.app.config.get("serial", "default_baud_rate", 115200)
DefaultBaud == 115200

\* The baud rates of the saved descriptors
Bauds == {9600, DefaultBaud}

\* __init__ and no call in progress
ManagerIdle ==
    /\ objs = <<>>
    /\ connections = [p \in Ports |-> 0]
    /\ ev_manager = [added |-> 0, removed |-> 0]
    /\ cpc = [c \in Callers |-> "idle"]
    /\ cport = [c \in Callers |-> "COM3"]
    /\ cbaud = [c \in Callers |-> DefaultBaud]
    /\ cobj = [c \in Callers |-> 0]
    /\ cres = [c \in Callers |-> "none"]
    /\ clog = [c \in Callers |-> "none"]
    /\ ctodo = [c \in Callers |-> <<>>]
    /\ cdescs = [c \in Callers |-> <<>>]
    /\ copens = [c \in Callers |-> <<>>]
    /\ bcast = [c \in Callers |-> [call |-> 0, size |-> 0, visited |-> {}, success |-> TRUE]]
    /\ bsends = [c \in Callers |-> <<>>]
    /\ bresult = [c \in Callers |-> "none"]
    /\ nbroadcasts = 0

\* A device record as _scan_devices makes it (lines 160-175), with the
\* fields of the connection bookkeeping; present is FALSE when self.devices
\* has no record for the port
NewDevice ==
    [present |-> TRUE, connected |-> FALSE, connection_attempts |-> 0,
     connection_failures |-> 0, is_flaky |-> FALSE]

NoDevice == [NewDevice EXCEPT !.present = FALSE]

\* DeviceManager.__init__: no device, no history
TrackerIdle ==
    /\ device = NoDevice
    /\ connection_history = <<>>
    /\ clock = 0
    /\ nevents = 0
    /\ flaky_result = "none"
    /\ device_history = <<>>
    /\ flagged = FALSE

InitRegistry ==
    /\ ManagerIdle
    /\ TrackerIdle
    /\ available \in (SUBSET Ports) \ {{}}

RegistryIdle ==
    /\ ManagerIdle
    /\ TrackerIdle
    /\ available = Ports

-----------------------------------------------------------------------------
(* SpecParser: a stream fed to DataParser.process_data in chunks           *)

MaxChunks == 3

Streams == SeqsUpTo(Alphabet, MaxStreamLen) \cup {AtGmrStream, Esp32Stream}

InitParser ==
    /\ stream \in Streams
    /\ pos = 0
    /\ nchunks = 0
    /\ last_n = 0
    /\ parser_buffer = <<>>
    /\ buffer = <<>>
    /\ lines_out = <<>>
    /\ max_buffer_size = MAX_BUFFER_SIZE
    /\ InitConnection
    /\ RegistryIdle

\* parser.process_data(chunk) with the next n bytes of the stream
Feed(n) ==
    /\ nchunks < MaxChunks
    /\ pos + n <= Len(stream)
    /\ (nchunks = MaxChunks - 1 => pos + n = Len(stream))
    /\ LET r == ProcessData(parser_buffer, Tag(SubSeq(stream, pos + 1, pos + n), pos))
       IN  /\ parser_buffer' = r.buffer
           /\ lines_out' = lines_out \o r.lines
    /\ pos' = pos + n
    /\ nchunks' = nchunks + 1
    /\ last_n' = n
    /\ UNCHANGED <<stream, buffer, max_buffer_size, connVars, histVars, mgrVars>>

NextParser == \E n \in 0..Len(AtGmrStream) : Feed(n)

SpecParser == InitParser /\ [][NextParser]_vars

\* Claim C3: in line-text mode the messages produced for a stream fed to
\* process_data in two chunks are those of feeding the whole stream at once,
\* whatever the split point (b"AT+GMR\r\nOK\r\n" gives ["AT+GMR", "OK"]).
C3_SplitIndependent ==
    (nchunks = 2 /\ pos = Len(stream)) =>
        /\ Texts(lines_out) = Texts(ProcessText(Tag(stream, 0)).lines)
        /\ (stream = AtGmrStream => Texts(lines_out) = AtGmrLines)

-----------------------------------------------------------------------------
(* SpecPump: the data path of SerialConnection._read_loop (lines 222-255): *)
(* a successful read of n bytes, the local buffer, the parser, the events  *)

\* A small buffer limit, so that short streams overflow it; streams are read
\* under it and under the program's MAX_BUFFER_SIZE
SmallBufferSize == 4

MaxPumpLen == 6

PumpStreams == SeqsUpTo({65, CR, LF}, MaxPumpLen) \cup {Esp32Stream}

\* buffer[-MAX_BUFFER_SIZE//2:]: unary minus binds first, so the index is
\* the floor of -max/2 and the slice keeps the last ceil(max/2) bytes
KeepLastHalf(buf, max) ==
    LET keep == (max + 1) \div 2
    IN  IF Len(buf) <= keep THEN buf ELSE SubSeq(buf, Len(buf) - keep + 1, Len(buf))

\* lines 236-242: truncate when the new data would not fit, then extend
Accumulate(buf, data, max) ==
    (IF Len(buf) + Len(data) > max THEN KeepLastHalf(buf, max) ELSE buf) \o data

\* lines 245-248: the whole local buffer is handed to process_data, which
\* appends it to the parser's own buffer; the local buffer then becomes a copy
\* of what the parser kept.
PumpStep(buf, pbuf, data, max) ==
    LET acc == Accumulate(buf, data, max)
        r   == ProcessData(pbuf, acc)
    IN  [lines |-> r.lines, parser_buffer |-> r.buffer, buffer |-> r.buffer]

InitPump ==
    /\ stream \in PumpStreams
    /\ max_buffer_size \in {SmallBufferSize, MAX_BUFFER_SIZE}
    /\ pos = 0
    /\ nchunks = 0
    /\ last_n = 0
    /\ parser_buffer = <<>>
    /\ buffer = <<>>
    /\ lines_out = <<>>
    /\ InitConnection
    /\ RegistryIdle

\* One iteration of the while loop in which serial.read returns n >= 1 bytes
ReadData(n) ==
    /\ n <= READ_SIZE
    /\ 2 * n <= max_buffer_size
    /\ pos + n <= Len(stream)
    /\ LET r == PumpStep(buffer, parser_buffer,
                         Tag(SubSeq(stream, pos + 1, pos + n), pos), max_buffer_size)
       IN  /\ parser_buffer' = r.parser_buffer
           /\ buffer' = r.buffer
           /\ lines_out' = lines_out \o r.lines
    /\ pos' = pos + n
    /\ nchunks' = nchunks + 1
    /\ last_n' = n
    /\ UNCHANGED <<stream, max_buffer_size, connVars, histVars, mgrVars>>

NextPump == \E n \in 1..Len(Esp32Stream) : ReadData(n)

SpecPump == InitPump /\ [][NextPump]_vars

IsTerminator(b) == b = CR \/ b = LF

\* The stream is one line: a body without terminator bytes, then \r\n, \n or \r
OneLineBody(s) ==
    IF Len(s) >= 2 /\ s[Len(s) - 1] = CR /\ s[Len(s)] = LF
    THEN SubSeq(s, 1, Len(s) - 2)
    ELSE SubSeq(s, 1, Len(s) - 1)

IsOneLine(s) ==
    /\ Len(s) >= 1
    /\ IsTerminator(s[Len(s)])
    /\ \A k \in 1..Len(OneLineBody(s)) : ~IsTerminator(OneLineBody(s)[k])

TerminatorLen(s) == Len(s) - Len(OneLineBody(s))

\* Claim C2: a terminated line received in k >= 1 read fragments produces
\* exactly one data-received event, whose text is the line without its
\* terminator ("ESP32 v1.0\r\n" in 3 fragments gives one event "ESP32 v1.0").
\* Stated for the fragmentations whose last fragment holds the whole
\* terminator; a \r\n cut between two fragments is the case of claim C3.
C2_OneEventPerLine ==
    (IsOneLine(stream) /\ pos = Len(stream) /\ last_n >= TerminatorLen(stream)) =>
        Texts(lines_out) = << [k \in 1..Len(OneLineBody(stream)) |->
                                 DecodeByte(OneLineBody(stream)[k])] >>

\* Claim C4: neither the parser's buffer nor the read pump's accumulation
\* buffer ever holds more than max_buffer_size bytes.
C4_BufferBound ==
    /\ Len(parser_buffer) <= max_buffer_size
    /\ Len(buffer) <= max_buffer_size

\* Claim C10: data-received events are emitted in the order in which the
\* bytes of their messages were read: every byte of an earlier event was read
\* before every byte of a later event.
C10_EventsInReadOrder ==
    \A j, k \in 1..Len(lines_out) :
        j < k => \A a \in 1..Len(lines_out[j]), b \in 1..Len(lines_out[k]) :
                    lines_out[j][a].i < lines_out[k][b].i

\* Two non-empty events have been emitted from at least two reads
C10_Witness ==
    /\ nchunks >= 2
    /\ Len(lines_out) >= 2
    /\ Len(lines_out[1]) >= 1
    /\ Len(lines_out[2]) >= 1

-----------------------------------------------------------------------------
(* One SerialConnection object, as the program uses it: constructed by     *)
(* SerialConnectionManager.open_connection, opened once (line 539 is the   *)
(* only call of open()), then used by send() and close().  Its threads:    *)
(* the caller ("api"), the read pump, the write pump, the stall timer's    *)
(* thread and the thread of the retry timer of _attempt_reconnect.         *)

InitParserIdle ==
    /\ stream = <<>>
    /\ pos = 0
    /\ nchunks = 0
    /\ last_n = 0
    /\ parser_buffer = <<>>
    /\ buffer = <<>>
    /\ lines_out = <<>>
    /\ max_buffer_size = MAX_BUFFER_SIZE

Init == InitParserIdle /\ InitConnection /\ RegistryIdle

Bump(st, field, n) == [st EXCEPT ![field] = @ + n]

\* ---- open() (lines 82-155), in two steps of the calling thread

\* lines 86-116: the counter is reset, the port is opened, the pumps and the
\* stall timer are started
OpenStart ==
    /\ pc["api"] = "idle" /\ ~opened
    /\ opened' = TRUE
    /\ reconnect_attempts' = 0
    /\ serial' = "open"
    /\ running' = TRUE
    /\ stall_armed' = TRUE
    /\ pc' = [pc EXCEPT !["api"] = "opening", !["read"] = "loop", !["write"] = "loop"]
    /\ UNCHANGED <<mgrVars, parserVars, connected, auto_reconnect, write_queue, stats, cerr,
                   written, accepted, send_result, ev_reconnect, ev_status, ev_error, openHist,
                   ev_data, nsends, nfaults, ncloses>>

\* lines 119-128: connected, the status event, the connect time
OpenFinish ==
    /\ pc["api"] = "opening"
    /\ connected' = TRUE
    /\ ev_status' = Append(ev_status, TRUE)
    /\ pc' = [pc EXCEPT !["api"] = "idle"]
    /\ open_result' = "true"
    /\ last_activity' = now
    /\ UNCHANGED <<regVars, trackerVars, stale, now, send_errors, error_run, parserVars, running, serial, auto_reconnect, reconnect_attempts,
                   write_queue, stats, stall_armed, cerr, written, accepted,
                   send_result, ev_reconnect, ev_error, ev_open_error, ev_data, opened, nsends, nfaults, ncloses>>

\* The substrings of str(e) tested by lines 131-137
ErrorMarkers ==
    {"Access is denied", "Port not found", "No such file or directory", "Permission denied"}

\* What serial.Serial raises: a SerialException ("serial") or another
\* exception, and which of the tested substrings its message contains
OpenExceptions == [kind : {"serial", "other"}, text : SUBSET ErrorMarkers]

\* open() emitting str(e) whatever the exception
ClassifyAsOther(exc) == "other"

\* lines 129-150: the message of the error event open() emits
Classify(exc) ==
    IF exc.kind /= "serial" THEN "other"
    ELSE IF "Access is denied" \in exc.text THEN "port-in-use"
    ELSE IF "Port not found" \in exc.text \/ "No such file or directory" \in exc.text
         THEN "port-not-found"
    ELSE IF "Permission denied" \in exc.text THEN "permission-denied"
    ELSE "other"

\* lines 129-155: serial.Serial raises; one error event, errors + 1, False
OpenFail(exc) ==
    /\ pc["api"] = "idle" /\ ~opened
    /\ opened' = TRUE
    /\ reconnect_attempts' = 0
    /\ ev_error' = ev_error + 1
    /\ ev_open_error' = Append(ev_open_error, [exc |-> exc, class |-> Classify(exc)])
    /\ open_result' = "false"
    /\ stats' = Bump(stats, "errors", 1)
    /\ UNCHANGED <<mgrVars, parserVars, connected, running, serial, auto_reconnect, write_queue,
                   stall_armed, pc, cerr, written, accepted, send_result, ev_reconnect,
                   ev_status, ev_data, nsends, nfaults, ncloses>>

\* ---- close() (lines 157-181), in three steps of the calling thread: the
\* joins of lines 166-170 wait at most one second each, so the pumps may or may
\* not have moved when close() goes on; the retry timers are not joined at all

\* lines 161-170: running is cleared, the stall timer is cancelled, the pumps
\* are joined with a timeout
CloseBegin ==
    /\ pc["api"] = "idle" /\ opened
    /\ ncloses < MaxCloses
    /\ ncloses' = ncloses + 1
    /\ running' = FALSE
    /\ stall_armed' = FALSE
    /\ pc' = [pc EXCEPT !["api"] = "closing"]
    /\ UNCHANGED <<mgrVars, parserVars, connected, serial, auto_reconnect, reconnect_attempts,
                   write_queue, stats, cerr, written, accepted, send_result,
                   ev_reconnect, ev_status, ev_error, openHist, ev_data, opened, nsends, nfaults>>

\* close() without the serial.close() of line 174
ReleaseHandleNever(s) == s

\* lines 173-174: if self.serial and self.serial.is_open: self.serial.close()
ReleaseHandle(s) == IF s = "open" THEN "closed" ELSE s

CloseRelease ==
    /\ pc["api"] = "closing"
    /\ serial' = ReleaseHandle(serial)
    /\ pc' = [pc EXCEPT !["api"] = "released"]
    /\ UNCHANGED <<mgrVars, parserVars, connected, running, auto_reconnect, reconnect_attempts,
                   write_queue, stats, stall_armed, cerr, histVars>>

\* lines 177-181: connected is cleared, the status event is emitted, True is
\* returned
CloseFinish ==
    /\ pc["api"] = "released"
    /\ connected' = FALSE
    /\ ev_status' = Append(ev_status, FALSE)
    /\ pc' = [pc EXCEPT !["api"] = "idle"]
    /\ UNCHANGED <<mgrVars, parserVars, running, serial, auto_reconnect, reconnect_attempts,
                   write_queue, stats, stall_armed, cerr, written, accepted, send_result,
                   ev_reconnect, ev_error, openHist, ev_data, opened, nsends, nfaults, ncloses>>

\* ---- send(data, add_newline) (lines 191-210)

NL == <<LF>>

EndsWithNewline(d) == Len(d) > 0 /\ d[Len(d)] = LF

\* lines 199-200
WithNewline(d, add_newline) ==
    IF add_newline /\ ~EndsWithNewline(d) THEN d \o NL ELSE d

\* send() without the check of lines 194-196
SendQueueUnchecked(q, isConnected, item) == Append(q, item)

\* What send() does to the queue: nothing unless connected (lines 194-196)
SendQueue(q, isConnected, item) == IF isConnected THEN Append(q, item) ELSE q

Send(d, add_newline) ==
    /\ nsends < MaxSends
    /\ nsends' = nsends + 1
    /\ LET item == [id |-> nsends + 1, data |-> WithNewline(d, add_newline)]
       IN  write_queue' = SendQueue(write_queue, connected, item)
    /\ accepted' = IF connected THEN Append(accepted, nsends + 1) ELSE accepted
    /\ send_result' = IF connected THEN "ok" ELSE "rejected"
    /\ UNCHANGED <<mgrVars, parserVars, connected, running, serial, auto_reconnect,
                   reconnect_attempts, stats, stall_armed, pc, cerr, written,
                   ev_reconnect, ev_status, ev_error, openHist, ev_data, opened, nfaults, ncloses>>

\* ---- _attempt_reconnect (lines 365-415), run by the thread that calls it

\* lines 368-371: the guard at the top; the label the caller goes to
RcEnter(t) ==
    IF auto_reconnect /\ reconnect_attempts < max_reconnect_attempts
    THEN "rc_incr" ELSE Ret(t)

\* What the caller does once _attempt_reconnect has returned: a pump resets
\* consecutive_errors (lines 272, 331), the stall check re-arms its timer if
\* the connection is running (lines 456-457)
CerrAfterReturn(t) == IF t \in Pumps THEN [cerr EXCEPT ![t] = 0] ELSE cerr

RunAfterReturn(t) == IF t \in Pumps THEN [error_run EXCEPT ![t] = 0] ELSE error_run

ArmedAfterReturn(t) == IF t = "stall" THEN running ELSE stall_armed

\* lines 375-378: self.reconnect_attempts += 1, stats["reconnect_attempts"] += 1
NextAttempt(n) == n + 1

RcIncr(t) ==
    /\ pc[t] = "rc_incr"
    /\ reconnect_attempts' = NextAttempt(reconnect_attempts)
    /\ stats' = Bump(stats, "reconnect_attempts", 1)
    /\ pc' = [pc EXCEPT ![t] = "rc_emit"]
    /\ UNCHANGED <<mgrVars, parserVars, connected, running, serial, auto_reconnect, write_queue,
                   stall_armed, cerr, histVars>>

\* lines 381-386: the event carries the counter as it is now; the current
\* handle is closed, then the thread sleeps half a second
RcEmit(t) ==
    /\ pc[t] = "rc_emit"
    /\ ev_reconnect' = Append(ev_reconnect, reconnect_attempts)
    /\ serial' = IF serial = "open" THEN "closed" ELSE serial
    /\ pc' = [pc EXCEPT ![t] = "rc_reopen"]
    /\ UNCHANGED <<mgrVars, parserVars, connected, running, auto_reconnect, reconnect_attempts,
                   write_queue, stats, stall_armed, cerr, written, accepted,
                   send_result, ev_status, ev_error, openHist, ev_data, opened, nsends, nfaults,
                   ncloses>>

\* The counter after a successful reopen (lines 389-406 leave it alone)
AttemptsAfterSuccess(n) == n

\* lines 389-406: serial.Serial succeeds
RcReopenOk(t) ==
    /\ pc[t] = "rc_reopen"
    /\ serial' = "open"
    /\ connected' = TRUE
    /\ reconnect_attempts' = AttemptsAfterSuccess(reconnect_attempts)
    /\ ev_status' = Append(ev_status, TRUE)
    /\ pc' = [pc EXCEPT ![t] = Ret(t)]
    /\ cerr' = CerrAfterReturn(t)
    /\ error_run' = RunAfterReturn(t)
    /\ stall_armed' = ArmedAfterReturn(t)
    /\ UNCHANGED <<regVars, trackerVars, stale, now, last_activity, send_errors, parserVars, running, auto_reconnect, write_queue, stats, written,
                   accepted, send_result, ev_reconnect, ev_error, openHist, ev_data, opened,
                   nsends, nfaults, ncloses>>

FreeTimers == {u \in Timers : pc[u] = "free" }

\* A failed attempt that starts no timer
SchedulesRetryNever(n) == FALSE

\* line 412: self.reconnect_attempts < self.max_reconnect_attempts
SchedulesRetry(n) == n < max_reconnect_attempts

\* lines 408-415: serial.Serial raises; below the cap a threading.Timer is
\* started for the next attempt (a timer thread that ends here lends its place
\* to the timer it starts)
RcReopenFail(t) ==
    /\ pc[t] = "rc_reopen"
    /\ IF SchedulesRetry(reconnect_attempts)
       THEN IF t \in Timers
            THEN pc' = [pc EXCEPT ![t] = "pending"]
            ELSE /\ FreeTimers /= {}
                 /\ pc' = [pc EXCEPT ![t] = Ret(t), ![CHOOSE u \in FreeTimers : TRUE] = "pending"]
       ELSE pc' = [pc EXCEPT ![t] = Ret(t)]
    /\ cerr' = CerrAfterReturn(t)
    /\ error_run' = RunAfterReturn(t)
    /\ stall_armed' = ArmedAfterReturn(t)
    /\ UNCHANGED <<regVars, trackerVars, stale, now, last_activity, send_errors, parserVars, connected, running, serial, auto_reconnect,
                   reconnect_attempts, write_queue, stats, histVars>>

\* The interval of a retry timer has elapsed: its thread calls
\* _attempt_reconnect (line 413)
TimerFire(t) ==
    /\ pc[t] = "pending"
    /\ pc' = [pc EXCEPT ![t] = RcEnter(t)]
    /\ UNCHANGED <<mgrVars, parserVars, connected, running, serial, auto_reconnect,
                   reconnect_attempts, write_queue, stats, stall_armed, cerr, histVars>>

\* ---- _read_loop (lines 212-283)

\* line 218: the loop ends when running is false
PumpExit(t) ==
    /\ pc[t] = "loop" /\ ~running
    /\ pc' = [pc EXCEPT ![t] = "done"]
    /\ UNCHANGED <<mgrVars, parserVars, connected, running, serial, auto_reconnect,
                   reconnect_attempts, write_queue, stats, stall_armed, cerr, histVars>>

\* lines 222-255: a read returns n bytes which the parser frames into k lines
ReadOk(n, k) ==
    /\ pc["read"] = "loop" /\ running /\ serial = "open"
    /\ stats.bytes_received + n <= MaxReadBytes
    /\ cerr' = [cerr EXCEPT !["read"] = 0]
    /\ stats' = Bump(Bump(stats, "bytes_received", n), "packets_received", k)
    /\ ev_data' = ev_data + k
    /\ last_activity' = now
    /\ error_run' = [error_run EXCEPT !["read"] = 0]
    /\ UNCHANGED <<regVars, trackerVars, stale, now, send_errors, parserVars, connected, running, serial, auto_reconnect,
                   reconnect_attempts, write_queue, stall_armed, pc, written, accepted,
                   send_result, ev_reconnect, ev_status, ev_error, openHist, opened, nsends,
                   nfaults, ncloses>>

\* The handlers of lines 260-283 and 319-342: an error event, errors + 1,
\* consecutive_errors + 1; a SerialException that makes it reach
\* max_consecutive_errors calls _attempt_reconnect when auto_reconnect is set
TriggersReconnect(kind, n) ==
    kind = "serial" /\ n >= max_consecutive_errors /\ auto_reconnect

PumpFault(t, kind) ==
    /\ nfaults < MaxFaults
    /\ nfaults' = nfaults + 1
    /\ ev_error' = ev_error + 1
    /\ stats' = Bump(stats, "errors", 1)
    /\ IF TriggersReconnect(kind, cerr[t] + 1)
       THEN /\ pc' = [pc EXCEPT ![t] = RcEnter(t)]
            /\ cerr' = [cerr EXCEPT ![t] = IF RcEnter(t) = Ret(t) THEN 0 ELSE @ + 1]
            /\ error_run' = [error_run EXCEPT ![t] = IF RcEnter(t) = Ret(t) THEN 0 ELSE @ + 1]
       ELSE /\ pc' = pc
            /\ cerr' = [cerr EXCEPT ![t] = @ + 1]
            /\ error_run' = [error_run EXCEPT ![t] = @ + 1]

ReadFault(kind) ==
    /\ pc["read"] = "loop" /\ running /\ serial = "open"
    /\ PumpFault("read", kind)
    /\ UNCHANGED <<regVars, trackerVars, stale, now, last_activity, send_errors, parserVars, connected, running, serial, auto_reconnect,
                   reconnect_attempts, write_queue, stall_armed, written, accepted,
                   send_result, ev_reconnect, ev_status, openHist, ev_data, opened,
                   nsends, ncloses>>

\* ---- _write_loop (lines 285-342)

\* A queue.LifoQueue in place of the queue.Queue
DequeueLast(q) == [item |-> q[Len(q)], rest |-> SubSeq(q, 1, Len(q) - 1)]

\* line 294: the item the write pump takes and the queue it leaves
Dequeue(q) == [item |-> Head(q), rest |-> Tail(q)]

\* lines 298-317: the item is written and flushed
WriteOk ==
    /\ pc["write"] = "loop" /\ running /\ write_queue /= <<>> /\ serial = "open"
    /\ LET d == Dequeue(write_queue)
       IN  /\ write_queue' = d.rest
           /\ written' = Append(written, d.item.id)
           /\ stats' = Bump(Bump(stats, "bytes_sent", Len(d.item.data)), "packets_sent", 1)
    /\ cerr' = [cerr EXCEPT !["write"] = 0]
    /\ last_activity' = now
    /\ error_run' = [error_run EXCEPT !["write"] = 0]
    /\ UNCHANGED <<regVars, trackerVars, stale, now, send_errors, parserVars, connected, running, serial, auto_reconnect,
                   reconnect_attempts, stall_armed, pc, accepted, send_result,
                   ev_reconnect, ev_status, ev_error, openHist, ev_data, opened, nsends, nfaults,
                   ncloses>>

\* line 298 is false: the item taken from the queue is not written
WriteDrop ==
    /\ pc["write"] = "loop" /\ running /\ write_queue /= <<>> /\ serial /= "open"
    /\ write_queue' = Dequeue(write_queue).rest
    /\ UNCHANGED <<mgrVars, parserVars, connected, running, serial, auto_reconnect,
                   reconnect_attempts, stats, stall_armed, pc, cerr, histVars>>

\* serial.write or flush raises: the item is gone from the queue
WriteFault(kind) ==
    /\ pc["write"] = "loop" /\ running /\ write_queue /= <<>> /\ serial = "open"
    /\ write_queue' = Dequeue(write_queue).rest
    /\ PumpFault("write", kind)
    /\ UNCHANGED <<regVars, trackerVars, stale, now, last_activity, send_errors, parserVars, connected, running, serial, auto_reconnect,
                   reconnect_attempts, stall_armed, written, accepted, send_result,
                   ev_reconnect, ev_status, openHist, ev_data, opened, nsends, ncloses>>

\* ---- _check_stalled_connection (lines 431-463), run when the stall timer
\* fires; whether last_activity is older than STALLED_CONNECTION_TIMEOUT is the
\* environment's choice

\* lines 434-435: not connected or not running: no check and no new timer
StallSkip ==
    /\ stall_armed /\ pc["stall"] = "idle"
    /\ ~connected \/ ~running
    /\ stall_armed' = FALSE
    /\ UNCHANGED <<mgrVars, parserVars, connected, running, serial, auto_reconnect,
                   reconnect_attempts, write_queue, stats, pc, cerr, histVars>>

\* lines 445-457: a stall is detected
StallDetected ==
    /\ stall_armed /\ pc["stall"] = "idle"
    /\ connected /\ running
    /\ stats.stalled_detected < MaxStalls
    /\ stats' = Bump(stats, "stalled_detected", 1)
    /\ IF auto_reconnect /\ RcEnter("stall") = "rc_incr"
       THEN /\ pc' = [pc EXCEPT !["stall"] = "rc_incr"]
            /\ stall_armed' = FALSE
       ELSE /\ pc' = pc
            /\ stall_armed' = running
    /\ UNCHANGED <<mgrVars, parserVars, connected, running, serial, auto_reconnect,
                   reconnect_attempts, write_queue, cerr, histVars>>

Reconnectors == Pumps \cup Timers \cup {"stall"}

FaultKinds == {"serial", "other"}

SendData == {<<65>>, <<65, LF>>}

Next ==
    \/ OpenStart
    \/ OpenFinish
    \/ \E exc \in OpenExceptions : OpenFail(exc)
    \/ CloseBegin
    \/ CloseRelease
    \/ CloseFinish
    \/ \E d \in SendData, nl \in BOOLEAN : Send(d, nl)
    \/ \E t \in Reconnectors : RcIncr(t)
    \/ \E t \in Reconnectors : RcEmit(t)
    \/ \E t \in Reconnectors : RcReopenOk(t)
    \/ \E t \in Reconnectors : RcReopenFail(t)
    \/ \E t \in Timers : TimerFire(t)
    \/ \E t \in Pumps : PumpExit(t)
    \/ \E n \in 1..2, k \in 0..1 : ReadOk(n, k)
    \/ \E kind \in FaultKinds : ReadFault(kind)
    \/ WriteOk
    \/ WriteDrop
    \/ \E kind \in FaultKinds : WriteFault(kind)
    \/ StallSkip
    \/ StallDetected

Spec == Init /\ [][Next]_vars

-----------------------------------------------------------------------------
(* Properties of one SerialConnection                                      *)

InReconnect(t) == pc[t] \in {"rc_incr", "rc_emit", "rc_reopen"}

\* No reconnection attempt is in progress or scheduled
NoAttemptPending ==
    \A t \in Reconnectors : ~InReconnect(t) /\ pc[t] /= "pending"

\* Claim C5: after open(), under every interleaving of the pumps, the stall
\* timer and the retry timers, the reconnect-attempt counter never exceeds
\* max_reconnect_attempts and at most max_reconnect_attempts reconnect-attempt
\* events are emitted.
C5_ReconnectCap ==
    /\ reconnect_attempts <= max_reconnect_attempts
    /\ Len(ev_reconnect) <= max_reconnect_attempts

\* Claim C6: a reconnection attempt that succeeds in reopening the port
\* resets the reconnect-attempt counter to 0 and leaves the connection open.
C6_ResetOnSuccess ==
    [][(\E t \in Reconnectors : RcReopenOk(t)) =>
          (reconnect_attempts' = 0 /\ connected' /\ serial' = "open")]_vars

\* max_reconnect_attempts attempts were made since open(), none of them
\* reopened the port, none is in progress or scheduled, close() was not called
AllAttemptsFailed ==
    /\ Len(ev_reconnect) >= max_reconnect_attempts
    /\ reconnect_attempts >= max_reconnect_attempts
    /\ ev_status = <<TRUE>>
    /\ ncloses = 0
    /\ NoAttemptPending

\* Claim C7: after max_reconnect_attempts consecutive failed reopen attempts
\* the connection is permanently failed: it does not report itself connected
\* (so that send() on it is rejected).
C7_PermanentlyFailed == AllAttemptsFailed => ~connected

\* Claim C8: send() on a connection that is not open (never opened, or
\* closed) returns failure and changes neither the outbound queue, nor the
\* statistics, nor the emitted events.
C8_SendRejected ==
    [][(nsends' = nsends + 1 /\ ~connected) =>
          /\ send_result' = "rejected"
          /\ write_queue' = write_queue
          /\ accepted' = accepted
          /\ stats' = stats
          /\ <<ev_reconnect, ev_status, ev_error, ev_data>>' =
                 <<ev_reconnect, ev_status, ev_error, ev_data>>]_vars

\* A send() was rejected on a connection that had been opened and then closed,
\* after an earlier send() had been accepted
C8_Witness ==
    /\ send_result = "rejected"
    /\ Len(accepted) = 1
    /\ nsends = 2
    /\ ev_status = <<TRUE, FALSE>>

\* Claim C9: the writes performed on the port are writes send() accepted, in
\* the order of their send() calls: no write is performed before a write whose
\* send() call preceded it.
C9_WritesInSendOrder ==
    /\ \A k \in 1..Len(written) : \E a \in 1..Len(accepted) : accepted[a] = written[k]
    /\ \A j, k \in 1..Len(written) : j < k => written[j] < written[k]

\* Two accepted items have both been written
C9_Witness == Len(written) >= 2 /\ Len(accepted) >= 2

\* A step of the calling thread inside the second close() call
SecondCloseStep == ncloses' = 2 /\ pc'["api"] /= pc["api"]

\* close() returns
CloseReturns == pc["api"] = "released" /\ pc'["api"] = "idle"

\* The end state of close(): not connected, not running, the port handle
\* released, no stall timer pending
ClosedEndState == ~connected /\ ~running /\ serial /= "open" /\ ~stall_armed

LastStatus == IF ev_status = <<>> THEN TRUE ELSE ev_status[Len(ev_status)]

C12_CloseClosedNoEffect ==
    [][(SecondCloseStep /\ ClosedEndState) =>
          /\ <<connected, running, serial, stall_armed, reconnect_attempts,
               write_queue, stats>>' =
             <<connected, running, serial, stall_armed, reconnect_attempts,
               write_queue, stats>>
          /\ <<ev_reconnect, ev_status, ev_error, ev_data>>' =
             <<ev_reconnect, ev_status, ev_error, ev_data>>]_vars

\* Claim C13: when close() returns success the port handle is released and
\* the connection reports not connected, even if a pump did not exit within
\* the bounded join wait.
C13_ClosedOnReturn ==
    [][CloseReturns => (serial' /= "open" /\ ~connected')]_vars

\* The step in which open() fails: serial.Serial has raised
OpenFails == ~opened /\ opened' /\ serial' = "none"

ErrorClasses == {"port-in-use", "port-not-found", "permission-denied", "other"}

\* The class of a failure whose message names one condition
MarkerClass(m) ==
    CASE m = "Access is denied" -> "port-in-use"
      [] m = "Port not found" -> "port-not-found"
      [] m = "No such file or directory" -> "port-not-found"
      [] m = "Permission denied" -> "permission-denied"

\* Claim C14: when the OS-level open fails, open() returns failure, emits
\* exactly one error event carrying the classification of the failure
\* (port-in-use, port-not-found, permission-denied or other) and no
\* connection-status-changed event, starts no pump and no stall timer, and
\* leaves the connection Closed.
C14_OpenFailure ==
    [][OpenFails =>
          /\ open_result' = "false"
          /\ ev_error' = ev_error + 1
          /\ Len(ev_open_error') = Len(ev_open_error) + 1
          /\ LET e == ev_open_error'[Len(ev_open_error')]
             IN  /\ e.class \in ErrorClasses
                 /\ e.exc.text = {} => e.class = "other"
                 /\ \A m \in ErrorMarkers :
                        (e.exc.kind = "serial" /\ e.exc.text = {m}) => e.class = MarkerClass(m)
          /\ ev_status' = ev_status
          /\ \A t \in Pumps : pc'[t] = "off"
          /\ ~stall_armed' /\ pc'["stall"] = "idle"
          /\ ~connected' /\ ~running' /\ serial' = "none"]_vars

\* open() has failed on a permission error and has reported it
C14_Witness ==
    /\ open_result = "false"
    /\ ev_error = 1
    /\ ev_open_error = << [exc |-> [kind |-> "serial", text |-> {"Permission denied"}],
                           class |-> "permission-denied"] >>

-----------------------------------------------------------------------------
(* SpecRegistry: SerialConnectionManager called by two threads, and the    *)
(* host's ports being plugged and unplugged.  A connection is here what    *)
(* the manager sees of it: open(), close() and send() as single steps.     *)

MaxRestoreLen == 2
MaxBroadcasts == 1

\* get_connection_info (lines 348-359), the fields restore_connections reads
Descriptors == [port : Ports, baud_rate : Bauds]

RestoreLists == SeqsUpTo(Descriptors, MaxRestoreLen) \ {<<>>}

\* SerialConnection.open() succeeded (lines 95-128)
OpenedConnection(p, b) ==
    [port |-> p, baud_rate |-> b, connected |-> TRUE, running |-> TRUE,
     serial |-> "open", enqueued |-> 0]

\* SerialConnection.close() (lines 157-181)
ClosedConnection(o) ==
    [o EXCEPT !.connected = FALSE, !.running = FALSE,
              !.serial = IF @ = "open" THEN "closed" ELSE @]

\* The keys of self.connections
InTable == {p \in Ports : connections[p] /= 0}

TableSize == Cardinality(InTable)

\* open_connection without the check of line 484
AlreadyOpenNever(p) == FALSE

\* line 484: port in self.connections and self.connections[port].connected
AlreadyOpen(p) == connections[p] /= 0 /\ objs[connections[p]].connected

\* open_connection without the check of line 517
PortExistsAlways(p, avail) == TRUE

\* lines 516-517: port in [p.device for p in comports()]
PortExists(p, avail) == p \in avail

\* restore_connections giving up at the first descriptor that fails
RestoreAbortOnFailure(todo, res) == IF res = "false" THEN <<>> ELSE Tail(todo)

\* lines 640-649: the loop goes on to the next descriptor whatever
\* open_connection returned
RestoreRest(todo, res) == Tail(todo)

\* open_connection(p, baud_rate = b) returns res to caller c, having logged
\* log and created connection o (0: none); restore_connections notes it
OpenReturn(c, p, b, o, res, log) ==
    /\ cpc' = [cpc EXCEPT ![c] = "idle"]
    /\ cres' = [cres EXCEPT ![c] = res]
    /\ clog' = [clog EXCEPT ![c] = log]
    /\ ctodo' = [ctodo EXCEPT ![c] = IF @ = <<>> THEN @ ELSE RestoreRest(@, res)]
    /\ copens' = [copens EXCEPT ![c] =
                    IF ctodo[c] = <<>> THEN @
                    ELSE Append(@, [port |-> p, baud_rate |-> b, obj |-> o, result |-> res])]

\* open_connection, lines 483-486: the already-open check
OpenCheck(c, p, b) ==
    /\ cpc[c] = "idle"
    /\ cport' = [cport EXCEPT ![c] = p]
    /\ cbaud' = [cbaud EXCEPT ![c] = b]
    /\ IF AlreadyOpen(p)
       THEN OpenReturn(c, p, b, 0, "true", "already_open")
       ELSE /\ cpc' = [cpc EXCEPT ![c] = "open_os"]
            /\ cres' = [cres EXCEPT ![c] = "none"]
            /\ clog' = [clog EXCEPT ![c] = "none"]
            /\ UNCHANGED <<ctodo, copens>>
    /\ UNCHANGED <<objs, connections, available, ev_manager, cobj, cdescs, bcastVars,
                   parserVars, connVars, histVars, trackerVars, watchVars>>

\* open_connection(port) called on the manager, with the default settings
OpenApi(c, p) == ctodo[c] = <<>> /\ OpenCheck(c, p, DefaultBaud)

\* lines 515-519: the port is not enumerated
OpenNotFound(c) ==
    /\ cpc[c] = "open_os"
    /\ ~PortExists(cport[c], available)
    /\ OpenReturn(c, cport[c], cbaud[c], 0, "false", "not_found")
    /\ UNCHANGED <<objs, connections, available, ev_manager, cport, cbaud, cobj, cdescs,
                   bcastVars, parserVars, connVars, histVars, trackerVars, watchVars>>

\* lines 521-539: a SerialConnection is created and its open() succeeds
OpenOs(c) ==
    /\ cpc[c] = "open_os"
    /\ PortExists(cport[c], available)
    /\ Len(objs) < MaxConns
    /\ objs' = Append(objs, OpenedConnection(cport[c], cbaud[c]))
    /\ cobj' = [cobj EXCEPT ![c] = Len(objs) + 1]
    /\ cpc' = [cpc EXCEPT ![c] = "open_insert"]
    /\ UNCHANGED <<connections, available, ev_manager, cport, cbaud, cres, clog,
                   restoreVars, bcastVars, parserVars, connVars, histVars, trackerVars, watchVars>>

\* lines 548-550: open() failed; the connection is not kept
OpenOsFail(c) ==
    /\ cpc[c] = "open_os"
    /\ PortExists(cport[c], available)
    /\ OpenReturn(c, cport[c], cbaud[c], 0, "false", "open_failed")
    /\ UNCHANGED <<objs, connections, available, ev_manager, cport, cbaud, cobj, cdescs,
                   bcastVars, parserVars, connVars, histVars, trackerVars, watchVars>>

\* line 541: self.connections[port] = connection
TableInsert(tbl, p, o) == [tbl EXCEPT ![p] = o]

\* lines 541-547: the table entry, connection_added, True
OpenInsert(c) ==
    /\ cpc[c] = "open_insert"
    /\ connections' = TableInsert(connections, cport[c], cobj[c])
    /\ ev_manager' = [ev_manager EXCEPT !.added = @ + 1]
    /\ OpenReturn(c, cport[c], cbaud[c], cobj[c], "true", "opened")
    /\ UNCHANGED <<objs, available, cport, cbaud, cobj, cdescs, bcastVars,
                   parserVars, connVars, histVars, trackerVars, watchVars>>

\* close_connection, lines 570-575: the connection of the table is closed
CloseCall(c, p) ==
    /\ cpc[c] = "idle" /\ ctodo[c] = <<>>
    /\ cport' = [cport EXCEPT ![c] = p]
    /\ IF connections[p] = 0
       THEN /\ cres' = [cres EXCEPT ![c] = "true"]
            /\ clog' = [clog EXCEPT ![c] = "no_connection"]
            /\ UNCHANGED <<objs, cpc>>
       ELSE /\ objs' = [objs EXCEPT ![connections[p]] = ClosedConnection(@)]
            /\ cpc' = [cpc EXCEPT ![c] = "close_pop"]
            /\ cres' = [cres EXCEPT ![c] = "none"]
            /\ clog' = [clog EXCEPT ![c] = "none"]
    /\ UNCHANGED <<connections, available, ev_manager, cbaud, cobj, restoreVars,
                   bcastVars, parserVars, connVars, histVars, trackerVars, watchVars>>

\* lines 577-587: self.connections.pop(port), connection_removed; a KeyError
\* is caught and logged at lines 590-592
ClosePop(c) ==
    /\ cpc[c] = "close_pop"
    /\ connections' = [connections EXCEPT ![cport[c]] = 0]
    /\ ev_manager' = [ev_manager EXCEPT
                        !.removed = IF connections[cport[c]] = 0 THEN @ ELSE @ + 1]
    /\ cres' = [cres EXCEPT ![c] = IF connections[cport[c]] = 0 THEN "false" ELSE "true"]
    /\ clog' = [clog EXCEPT ![c] = IF connections[cport[c]] = 0 THEN "close_error" ELSE "closed"]
    /\ cpc' = [cpc EXCEPT ![c] = "idle"]
    /\ UNCHANGED <<objs, available, cport, cbaud, cobj, restoreVars, bcastVars,
                   parserVars, connVars, histVars, trackerVars, watchVars>>

\* ---- restore_connections (lines 638-649)

\* The call: the loop starts on the list it was given
RestoreStart(c, descs) ==
    /\ cpc[c] = "idle" /\ ctodo[c] = <<>>
    /\ \A d \in Callers : cdescs[d] = <<>>
    /\ cdescs' = [cdescs EXCEPT ![c] = descs]
    /\ ctodo' = [ctodo EXCEPT ![c] = descs]
    /\ UNCHANGED <<objs, connections, available, ev_manager, callVars, copens, bcastVars,
                   parserVars, connVars, histVars, trackerVars, watchVars>>

\* lines 640-649: open_connection on the next descriptor
RestoreNext(c) ==
    /\ ctodo[c] /= <<>>
    /\ OpenCheck(c, Head(ctodo[c]).port, Head(ctodo[c]).baud_rate)

\* ---- broadcast_data (lines 615-624).  The for loop iterates the live
\* dictionary.  A dictionary whose size has changed since the iterator was
\* made makes the next step of the iteration raise RuntimeError, which
\* broadcast_data does not catch; an entry stored during the iteration in a
\* dictionary that has its old size again is met later in the iteration.
\* bcast[c].visited holds the connections the iteration has yielded.

\* broadcast_data sending to every connection of the table
ShouldSendAlways(conn) == TRUE

\* line 620: if connection.connected
ShouldSend(conn) == conn.connected

\* The entries of the table the iteration has still to yield
ToVisit(c) == {p \in InTable : connections[p] \notin bcast[c].visited}

\* lines 617-619: success = True, the iterator is made
BroadcastStart(c) ==
    /\ cpc[c] = "idle" /\ ctodo[c] = <<>>
    /\ nbroadcasts < MaxBroadcasts
    /\ nbroadcasts' = nbroadcasts + 1
    /\ bcast' = [bcast EXCEPT ![c] = [call |-> @.call + 1, size |-> TableSize,
                                      visited |-> {}, success |-> TRUE]]
    /\ bresult' = [bresult EXCEPT ![c] = "none"]
    /\ UNCHANGED bsends
    /\ cpc' = [cpc EXCEPT ![c] = "bc_next"]
    /\ cres' = [cres EXCEPT ![c] = "none"]
    /\ clog' = [clog EXCEPT ![c] = "none"]
    /\ UNCHANGED <<objs, connections, available, ev_manager, cport, cbaud, cobj,
                   restoreVars, parserVars, connVars, histVars, trackerVars, watchVars>>

\* line 619: the iteration finds the dictionary resized
BroadcastRaise(c) ==
    /\ cpc[c] = "bc_next"
    /\ TableSize /= bcast[c].size
    /\ cpc' = [cpc EXCEPT ![c] = "idle"]
    /\ cres' = [cres EXCEPT ![c] = "raised"]
    /\ bresult' = [bresult EXCEPT ![c] = "raised"]
    /\ UNCHANGED <<objs, connections, available, ev_manager, cport, cbaud, cobj, clog,
                   restoreVars, bcast, bsends, nbroadcasts, parserVars, connVars, histVars, trackerVars, watchVars>>

\* lines 619-620: the next entry of the table and the test of its connection
BroadcastVisit(c, p) ==
    /\ cpc[c] = "bc_next"
    /\ TableSize = bcast[c].size
    /\ p \in ToVisit(c)
    /\ bcast' = [bcast EXCEPT ![c].visited = @ \cup {connections[p]}]
    /\ bsends' = [bsends EXCEPT ![c] =
                    Append(@, [call |-> bcast[c].call, port |-> p, obj |-> connections[p],
                               connected |-> objs[connections[p]].connected,
                               sent |-> "no"])]
    /\ cport' = [cport EXCEPT ![c] = p]
    /\ cobj' = [cobj EXCEPT ![c] = connections[p]]
    /\ cpc' = [cpc EXCEPT ![c] =
                 IF ShouldSend(objs[connections[p]]) THEN "bc_send" ELSE "bc_next"]
    /\ UNCHANGED <<objs, connections, available, ev_manager, cbaud, cres, clog, restoreVars,
                   bresult, nbroadcasts, parserVars, connVars, histVars, trackerVars, watchVars>>

\* lines 621-622: connection.send(data, add_newline) puts the data on the
\* connection's queue and returns True, or returns False if the connection
\* is not connected (lines 194-205)
BroadcastSend(c) ==
    /\ cpc[c] = "bc_send"
    /\ LET o == cobj[c]
           ok == objs[o].connected
       IN  /\ objs' = [objs EXCEPT ![o].enqueued = IF ok THEN @ + 1 ELSE @]
           /\ bcast' = [bcast EXCEPT ![c].success = @ /\ ok]
           /\ bsends' = [bsends EXCEPT ![c][Len(bsends[c])].sent =
                                            IF ok THEN "ok" ELSE "failed"]
    /\ cpc' = [cpc EXCEPT ![c] = "bc_next"]
    /\ UNCHANGED <<connections, available, ev_manager, cport, cbaud, cobj, cres, clog,
                   restoreVars, bresult, nbroadcasts, parserVars, connVars, histVars, trackerVars, watchVars>>

\* line 624: the iteration is over, success is returned
BroadcastEnd(c) ==
    /\ cpc[c] = "bc_next"
    /\ TableSize = bcast[c].size
    /\ ToVisit(c) = {}
    /\ cpc' = [cpc EXCEPT ![c] = "idle"]
    /\ cres' = [cres EXCEPT ![c] = IF bcast[c].success THEN "true" ELSE "false"]
    /\ bresult' = [bresult EXCEPT ![c] = IF bcast[c].success THEN "true" ELSE "false"]
    /\ UNCHANGED <<objs, connections, available, ev_manager, cport, cbaud, cobj, clog,
                   restoreVars, bcast, bsends, nbroadcasts, parserVars, connVars, histVars, trackerVars, watchVars>>

\* ---- the host: a device is unplugged, or plugged in

Unplug(p) ==
    /\ p \in available
    /\ available' = available \ {p}
    /\ UNCHANGED <<objs, connections, ev_manager, callVars, restoreVars, bcastVars,
                   parserVars, connVars, histVars, trackerVars, watchVars>>

Plug(p) ==
    /\ p \notin available
    /\ available' = available \cup {p}
    /\ UNCHANGED <<objs, connections, ev_manager, callVars, restoreVars, bcastVars,
                   parserVars, connVars, histVars, trackerVars, watchVars>>

\* open_connection and close_connection in progress
OpenCloseSteps ==
    \/ \E c \in Callers : OpenNotFound(c)
    \/ \E c \in Callers : OpenOs(c)
    \/ \E c \in Callers : OpenOsFail(c)
    \/ \E c \in Callers : OpenInsert(c)
    \/ \E c \in Callers : ClosePop(c)

NextRegistry ==
    \/ \E c \in Callers, p \in Ports : OpenApi(c, p)
    \/ \E c \in Callers, p \in Ports : CloseCall(c, p)
    \/ OpenCloseSteps
    \/ \E p \in Ports : Unplug(p)
    \/ \E p \in Ports : Plug(p)

InitManager == InitParserIdle /\ InitConnection /\ InitRegistry

SpecRegistry == InitManager /\ [][NextRegistry]_vars

\* A session being restored while the other thread closes connections
NextRestore ==
    \/ \E c \in Callers, descs \in RestoreLists : RestoreStart(c, descs)
    \/ \E c \in Callers : RestoreNext(c)
    \/ \E c \in Callers, p \in Ports : CloseCall(c, p)
    \/ OpenCloseSteps

SpecRestore == InitManager /\ [][NextRestore]_vars

\* A broadcast while the other thread opens and closes connections
NextBroadcast ==
    \/ \E c \in Callers, p \in Ports : OpenApi(c, p)
    \/ \E c \in Callers, p \in Ports : CloseCall(c, p)
    \/ OpenCloseSteps
    \/ \E c \in Callers : BroadcastStart(c)
    \/ \E c \in Callers : BroadcastRaise(c)
    \/ \E c \in Callers, p \in Ports : BroadcastVisit(c, p)
    \/ \E c \in Callers : BroadcastSend(c)
    \/ \E c \in Callers : BroadcastEnd(c)

SpecBroadcast == InitManager /\ [][NextBroadcast]_vars

\* What a caller sees of its own calls
CallerView(c) == <<cpc[c], cport[c], cbaud[c], cres[c], clog[c]>>

HasOpenConnection(p) ==
    \E k \in 1..Len(objs) : connections[p] = k /\ objs[k].connected

\* Caller c's open_connection(p) returns at the already-open check
ReturnsAlreadyOpen(c, p) ==
    /\ cpc[c] = "idle" /\ cpc'[c] = "idle"
    /\ cport'[c] = p /\ clog'[c] = "already_open"
    /\ CallerView(c)' /= CallerView(c)

\* Claim C15: open_connection(port) on a port whose Connection of the table is
\* connected never goes on to create a Connection or to open the port; it
\* returns True and leaves the Connection objects, their handles, the
\* connection table and the manager's events as they were.
C15_AlreadyOpenNoOp ==
    [][\A c \in Callers, p \in Ports :
         (cpc[c] = "idle" /\ HasOpenConnection(p)) =>
            /\ ~(cpc'[c] = "open_os" /\ cport'[c] = p)
            /\ ReturnsAlreadyOpen(c, p) =>
                  /\ cres'[c] = "true"
                  /\ objs' = objs
                  /\ connections' = connections
                  /\ ev_manager' = ev_manager]_vars

\* The second open_connection of a port returned True and there is still
\* one Connection, one table entry and one connection_added
C15_Witness ==
    /\ \A c \in Callers : cpc[c] = "idle" /\ cres[c] = "true"
    /\ \E c \in Callers : clog[c] = "already_open" /\ connections[cport[c]] = 1
    /\ Len(objs) = 1 /\ objs[1].connected /\ objs[1].serial = "open"
    /\ ev_manager = [added |-> 1, removed |-> 0]

\* Claim C16 as stated: an open_connection(port) that returns while the port
\* is absent from the enumerated ports returns False with the not-found
\* message.
C16_UnlistedPortFails ==
    [][\A c \in Callers :
         (/\ cpc[c] = "idle" \/ cpc[c] = "open_os"
          /\ cpc'[c] = "idle"
          /\ clog'[c] \in {"already_open", "not_found", "open_failed"}
          /\ CallerView(c)' /= CallerView(c)
          /\ cport'[c] \notin available)
         => (cres'[c] = "false" /\ clog'[c] = "not_found")]_vars

\* Claim C16, amended: an open_connection(port) that has passed the
\* already-open check and finds the port absent from the enumerated ports
\* returns False with the not-found message, creates no Connection, opens
\* nothing and leaves the connection table and the manager's events as they
\* were.
C16_UnlistedPortFailsUnlessOpen ==
    [][\A c \in Callers :
         (cpc[c] = "open_os" /\ cport[c] \notin available /\ cpc'[c] /= "open_os")
         => /\ cpc'[c] = "idle"
            /\ cres'[c] = "false" /\ clog'[c] = "not_found"
            /\ objs' = objs
            /\ connections' = connections
            /\ ev_manager' = ev_manager]_vars

\* An open_connection of an unplugged port has failed as not found
C16_Witness ==
    \E c \in Callers :
        /\ cpc[c] = "idle" /\ cres[c] = "false" /\ clog[c] = "not_found"
        /\ cport[c] \notin available
        /\ connections[cport[c]] = 0
        /\ objs = <<>>


\* The open_connection calls restore_connections has made so far are those of
\* the first descriptors of the list, in order, with the descriptors'
\* settings; the rest of the list is still to come, whatever the calls returned
RestoreInOrder ==
    \A c \in Callers :
        LET n == Len(copens[c])
        IN  /\ n <= Len(cdescs[c])
            /\ ctodo[c] = SubSeq(cdescs[c], n + 1, Len(cdescs[c]))
            /\ \A k \in 1..n :
                  /\ copens[c][k].port = cdescs[c][k].port
                  /\ copens[c][k].baud_rate = cdescs[c][k].baud_rate
                  /\ copens[c][k].obj /= 0 =>
                        /\ copens[c][k].result = "true"
                        /\ objs[copens[c][k].obj].port = cdescs[c][k].port
                        /\ objs[copens[c][k].obj].baud_rate = cdescs[c][k].baud_rate

\* A step of the thread that runs restore_connections
RestoreStep(c) ==
    /\ ctodo[c] /= <<>>
    /\ CallerView(c)' /= CallerView(c) \/ ctodo'[c] /= ctodo[c]

\* No connection is closed and no table entry is removed
KeepsOpen ==
    /\ \A k \in 1..Len(objs) :
          objs[k].connected => (objs'[k].connected /\ objs'[k].serial = objs[k].serial)
    /\ \A p \in Ports : connections[p] /= 0 => connections'[p] /= 0

\* Claim C18: restore_connections calls open_connection for every descriptor
\* of its list, in the order of the list and with the descriptor's port and
\* settings; a call that fails does not stop the loop; and no step of the
\* restoration closes a connection or removes a table entry.
C18_RestoreAll ==
    /\ []RestoreInOrder
    /\ [][\A c \in Callers : RestoreStep(c) => KeepsOpen]_vars

\* A restoration of two descriptors is over: the first failed, the second
\* was opened and is in the table
C18_Witness ==
    \E c \in Callers :
        /\ Len(cdescs[c]) = 2 /\ ctodo[c] = <<>> /\ cpc[c] = "idle"
        /\ Len(copens[c]) = 2
        /\ copens[c][1].result = "false"
        /\ copens[c][2].result = "true" /\ copens[c][2].obj /= 0
        /\ objs[copens[c][2].obj].connected
        /\ connections[cdescs[c][2].port] = copens[c][2].obj

\* Caller c's broadcast_data returns a value
BroadcastReturns(c) == bresult[c] = "none" /\ bresult'[c] \in {"true", "false"}

\* What the call that returns has met
CallEntries(c) == {k \in 1..Len(bsends[c]) : bsends[c][k].call = bcast[c].call}

\* The sends of all broadcasts that have put the data on connection o's queue
SendsTo(o) ==
    {ck \in Callers \X (1..(MaxConns * MaxBroadcasts)) :
        /\ ck[2] <= Len(bsends[ck[1]])
        /\ bsends[ck[1]][ck[2]].obj = o
        /\ bsends[ck[1]][ck[2]].sent = "ok"}

OpenHandles(p) == {k \in 1..Len(objs) : objs[k].port = p /\ objs[k].serial = "open"}

LiveConnections(p) == {k \in 1..Len(objs) : objs[k].port = p /\ objs[k].running}

\* Claim C1: for every port, under every interleaving of open and close calls
\* of the manager, at most one OS serial handle is open and at most one
\* connection is live for that port.
C1_OneConnectionPerPort ==
    \A p \in Ports :
        /\ Cardinality(OpenHandles(p)) <= 1
        /\ Cardinality(LiveConnections(p)) <= 1


-----------------------------------------------------------------------------
(* SpecTracker: DeviceManager's bookkeeping for one port.  Scans, connects *)
(* and disconnects run one at a time (the scan thread holds devices_lock;  *)
(* the calls of the user interface are taken between two scans).           *)

flaky_connection_threshold_pct == 30
connection_history_window == 10
min_connection_attempts == 5
min_stable_connection_time == 30
max_history_entries == 10

max_connection_history == 100

MaxEvents == 7
MaxAttempts == 5

\* Seconds between two recorded events: more than the 5 s after which a
\* device that is not seen is dropped, and below or above
\* min_stable_connection_time
ShortGap == 6
LongGap == 40
Gaps == {ShortGap, LongGap}

\* lines 608-620: the event is appended and the list keeps its last
\* max_history_entries entries
UpdateConnectionHistory(history, action, t) ==
    LET h == Append(history, [action |-> action, timestamp |-> t])
    IN  IF Len(h) > max_history_entries
        THEN SubSeq(h, Len(h) - max_history_entries + 1, Len(h))
        ELSE h

\* history[-n:]
LastN(history, n) ==
    IF Len(history) > n THEN SubSeq(history, Len(history) - n + 1, Len(history))
    ELSE history

RECURSIVE InsertByTimestamp(_, _)
InsertByTimestamp(e, sorted) ==
    IF sorted = <<>> THEN <<e>>
    ELSE IF e.timestamp < Head(sorted).timestamp THEN <<e>> \o sorted
    ELSE <<Head(sorted)>> \o InsertByTimestamp(e, Tail(sorted))

\* line 555: sorted(recent_history, key = timestamp), a stable sort
RECURSIVE SortByTimestamp(_)
SortByTimestamp(h) ==
    IF h = <<>> THEN <<>>
    ELSE InsertByTimestamp(h[Len(h)], SortByTimestamp(SubSeq(h, 1, Len(h) - 1)))

RECURSIVE SumSeq(_)
SumSeq(q) == IF q = <<>> THEN 0 ELSE Head(q) + SumSeq(Tail(q))

\* lines 558-560
TimeDiffs(sorted) ==
    [k \in 1..(Len(sorted) - 1) |-> sorted[k + 1].timestamp - sorted[k].timestamp]

CountAction(h, action) == Cardinality({k \in 1..Len(h) : h[k].action = action})

\* _is_device_flaky judging on any number of attempts
EnoughAttemptsAlways(attempts) == TRUE

\* line 533: attempts >= min_attempts
EnoughAttempts(attempts) == attempts >= min_connection_attempts

\* line 545: the history signals are looked at only if the port's history has
\* at least min_attempts entries
EnoughHistory(history) == Len(history) >= min_connection_attempts

\* lines 526-538: the record's flag, then its failure rate;
\* failures / attempts >= 0.3 in hundredths
DeviceSignal(dev) ==
    /\ dev.present
    /\ \/ dev.is_flaky
       \/ /\ EnoughAttempts(dev.connection_attempts)
          /\ 100 * dev.connection_failures
               >= flaky_connection_threshold_pct * dev.connection_attempts

\* _is_device_flaky looking at the device record only
HistorySignalNever(history) == FALSE

\* lines 541-578: the port's history; avg_time_diff < min_stable_time is
\* sum < min_stable_time * len, and disconnect_rate > 1.5 is 2 * d > 3 * c
HistorySignal(history) ==
    /\ EnoughHistory(history)
    /\ LET recent == LastN(history, connection_history_window)
           connect_events == CountAction(recent, "connect")
           disconnect_events == CountAction(recent, "disconnect")
           time_diffs == TimeDiffs(SortByTimestamp(recent))
       IN  \/ /\ Len(recent) >= 2
              /\ Len(time_diffs) >= 2
              /\ SumSeq(time_diffs) < min_stable_connection_time * Len(time_diffs)
           \/ /\ connect_events > 0 /\ disconnect_events > 0
              /\ 2 * disconnect_events > 3 * connect_events

\* _is_device_flaky (lines 506-580)
IsDeviceFlaky(dev, history) == DeviceSignal(dev) \/ HistorySignal(history)

BoolText(b) == IF b THEN "true" ELSE "false"

\* line 301: max_connection_retries of the configuration, by default
max_connection_retries == 3

\* What open_connection returns at each try of the loop of lines 309-337
RetryOutcomes == [1..max_connection_retries -> BOOLEAN]

\* lines 309-337: the loop ends at the first try that returns True, or after
\* max_connection_retries tries
RetrySucceeds(outcomes) == \E k \in 1..max_connection_retries : outcomes[k]

\* connect_device counting one failure for each try that failed
ConnectEffectPerRetry(dev, history, ok, t) ==
    IF dev.connected \/ dev.is_flaky
    THEN [dev |-> dev, history |-> history, events |-> 0]
    ELSE IF ok
    THEN [dev |-> [dev EXCEPT !.connection_attempts = @ + 1, !.connected = TRUE],
          history |-> UpdateConnectionHistory(history, "connect", t),
          events |-> 1]
    ELSE [dev |-> [dev EXCEPT !.connection_attempts = @ + 1,
                              !.connection_failures = @ + max_connection_retries],
          history |-> history, events |-> 0]

\* connect_device (lines 284-355) on record dev at time t: refused for a
\* flagged record (connect_flaky_devices is False by default); otherwise one
\* attempt is counted, open_connection is tried up to three times, and the
\* call ends connected with a "connect" event or with one failure counted
ConnectEffect(dev, history, ok, t) ==
    IF dev.connected \/ dev.is_flaky
    THEN [dev |-> dev, history |-> history, events |-> 0]
    ELSE IF ok
    THEN [dev |-> [dev EXCEPT !.connection_attempts = @ + 1, !.connected = TRUE],
          history |-> UpdateConnectionHistory(history, "connect", t),
          events |-> 1]
    ELSE [dev |-> [dev EXCEPT !.connection_attempts = @ + 1,
                              !.connection_failures = @ + 1],
          history |-> history, events |-> 0]

\* lines 592-607: the event is appended to the record's own history, which
\* keeps its last max_connection_history entries
UpdateDeviceHistory(history, action, t) ==
    LET h == Append(history, [action |-> action, timestamp |-> t])
    IN  IF Len(h) > max_connection_history
        THEN SubSeq(h, Len(h) - max_connection_history + 1, Len(h))
        ELSE h

\* lines 588-589 in connect_device: the record's own history gets the event
\* only if get_device_by_port finds the record in self.devices
DeviceHistoryAfterConnect(history, listed, r, t) ==
    IF listed /\ r.events > 0 THEN UpdateDeviceHistory(history, "connect", t) ELSE history

\* What a call leaves: the record, the history, the clock if an event was
\* recorded
TrackerResult(r, t) ==
    /\ device' = r.dev
    /\ connection_history' = r.history
    /\ nevents' = nevents + r.events
    /\ clock' = IF r.events > 0 THEN t ELSE clock
    /\ flaky_result' = "none"

\* _update_device_list, lines 238-247: the port is seen for the first time;
\* it is connected at once if auto_connect is set and the port's history
\* does not make it flaky (self.devices has no record of it yet)
Detect(auto_connect, ok, gap) ==
    /\ ~device.present
    /\ nevents < MaxEvents
    /\ IF auto_connect /\ ~IsDeviceFlaky(NoDevice, connection_history)
       THEN /\ TrackerResult(ConnectEffect(NewDevice, connection_history, ok, clock + gap),
                             clock + gap)
            /\ device_history' =
                 DeviceHistoryAfterConnect(<<>>, FALSE,
                     ConnectEffect(NewDevice, connection_history, ok, clock + gap),
                     clock + gap)
       ELSE /\ TrackerResult([dev |-> NewDevice, history |-> connection_history,
                              events |-> 0], clock)
            /\ device_history' = <<>>
    /\ UNCHANGED <<flagged, regVars, parserVars, connVars, histVars, watchVars>>

\* connect_device called for a listed device that is not connected
ConnectDevice(ok, gap) ==
    /\ device.present /\ ~device.connected
    /\ nevents < MaxEvents
    /\ device.connection_attempts < MaxAttempts
    /\ TrackerResult(ConnectEffect(device, connection_history, ok, clock + gap),
                     clock + gap)
    /\ device_history' =
         DeviceHistoryAfterConnect(device_history, TRUE,
             ConnectEffect(device, connection_history, ok, clock + gap), clock + gap)
    /\ UNCHANGED <<flagged, regVars, parserVars, connVars, histVars, watchVars>>

\* disconnect_device (lines 357-386) with close_connection returning True
DisconnectDevice(gap) ==
    /\ device.present /\ device.connected
    /\ nevents < MaxEvents
    /\ TrackerResult([dev |-> [device EXCEPT !.connected = FALSE],
                      history |-> UpdateConnectionHistory(connection_history,
                                                          "disconnect", clock + gap),
                      events |-> 1], clock + gap)
    /\ device_history' = UpdateDeviceHistory(device_history, "disconnect", clock + gap)
    /\ UNCHANGED <<flagged, regVars, parserVars, connVars, histVars, watchVars>>

\* _update_device_list, lines 251-275: the port has not been seen for longer
\* than the timeout.  A "disconnect" event is recorded, a connected device
\* is disconnected (a second event), the record is flagged if the port is
\* now flaky, and the record is left out of the new self.devices
Disappear(gap) ==
    /\ device.present
    /\ nevents + (IF device.connected THEN 2 ELSE 1) <= MaxEvents
    /\ LET t == clock + gap
           h1 == UpdateConnectionHistory(connection_history, "disconnect", t)
           h2 == IF device.connected
                 THEN UpdateConnectionHistory(h1, "disconnect", t) ELSE h1
       IN  /\ TrackerResult([dev |-> NoDevice, history |-> h2,
                              events |-> IF device.connected THEN 2 ELSE 1], t)
           /\ flagged' = (flagged \/ IsDeviceFlaky([device EXCEPT !.connected = FALSE], h2))
    /\ device_history' = <<>>
    /\ UNCHANGED <<regVars, parserVars, connVars, histVars, watchVars>>

\* _is_device_flaky(port) is asked
IsFlakyQuery ==
    /\ flaky_result = "none"
    /\ flaky_result' = BoolText(IsDeviceFlaky(device, connection_history))
    /\ UNCHANGED <<device, connection_history, clock, nevents, device_history, flagged,
                   regVars, parserVars, connVars, histVars, watchVars>>

NextTracker ==
    \/ \E auto_connect \in BOOLEAN, outcomes \in RetryOutcomes, gap \in Gaps :
          Detect(auto_connect, RetrySucceeds(outcomes), gap)
    \/ \E outcomes \in RetryOutcomes, gap \in Gaps :
          ConnectDevice(RetrySucceeds(outcomes), gap)
    \/ \E gap \in Gaps : DisconnectDevice(gap)
    \/ \E gap \in Gaps : Disappear(gap)
    \/ IsFlakyQuery

SpecTracker == Init /\ [][NextTracker]_vars

\* The signals as the specification words them, on the device record and on
\* the recent events of the port
RecentEvents == LastN(connection_history, connection_history_window)

FailureRateSignal ==
    /\ device.present
    /\ device.connection_attempts >= 5
    /\ 10 * device.connection_failures >= 3 * device.connection_attempts

\* the gaps between consecutive recent events are on average below
\* min_stable_connection_time
RapidCycling ==
    /\ Len(RecentEvents) >= 2
    /\ RecentEvents[Len(RecentEvents)].timestamp - RecentEvents[1].timestamp
         < 30 * (Len(RecentEvents) - 1)

DisconnectDominance ==
    /\ CountAction(RecentEvents, "connect") > 0
    /\ 2 * CountAction(RecentEvents, "disconnect") > 3 * CountAction(RecentEvents, "connect")

\* Claim C19: with no rapid cycling and no disconnect dominance in the port's
\* recent events, _is_device_flaky returns True exactly if the device record
\* has at least 5 attempts and failures / attempts >= 0.3.
C19_FailureRateThreshold ==
    (flaky_result /= "none" /\ device.present /\ ~RapidCycling /\ ~DisconnectDominance)
    => (flaky_result = "true" <=> FailureRateSignal)

\* 5 attempts and 2 failures, events far apart: reported flaky
C19_Witness ==
    /\ flaky_result = "true"
    /\ device.connection_attempts = 5 /\ device.connection_failures = 2
    /\ ~RapidCycling /\ ~DisconnectDominance

\* Claim C20 as stated: whenever one of the three signals holds on its own
\* data, _is_device_flaky returns True.
C20_AnySignalSuffices ==
    (flaky_result /= "none" /\ (FailureRateSignal \/ RapidCycling \/ DisconnectDominance))
    => flaky_result = "true"

\* Claim C20, amended: _is_device_flaky returns True whenever the failure-rate
\* signal holds, or the port's history has at least min_attempts (5) entries
\* and its recent events show rapid cycling or disconnect dominance.
C20_AnySignalWithEnoughHistory ==
    (/\ flaky_result /= "none"
     /\ \/ FailureRateSignal
        \/ /\ Len(connection_history) >= 5
           /\ RapidCycling \/ DisconnectDominance)
    => flaky_result = "true"

\* Disconnect dominance alone, on a history of at least 5 events, has made
\* the verdict True
C20_Witness ==
    /\ flaky_result = "true"
    /\ Len(connection_history) >= 5
    /\ ~FailureRateSignal /\ ~RapidCycling /\ DisconnectDominance


\* Claim C21: once line 271 has flagged a device of the port, every
\* _is_device_flaky(port) asked afterwards returns True.
C21_FlagIsSticky ==
    (flagged /\ flaky_result /= "none") => flaky_result = "true"

\* A step that records an event for the port while, or after which, the port
\* has a device record
RecordsEvent == connection_history' /= connection_history /\ device'.present

LastEvent(h) == h[Len(h)]

\* Claim C22: after every event recorded for the port, the port's history
\* holds at most max_history_entries events and the record's own history at
\* most max_connection_history, and the event is the last entry of both.
C22_RecordedInBoth ==
    [][RecordsEvent =>
         /\ Len(connection_history') <= max_history_entries
         /\ Len(device_history') <= max_connection_history
         /\ device_history' /= <<>>
         /\ LastEvent(device_history') = LastEvent(connection_history')]_vars


\* Claim C29: in line-text mode the buffer is split at the earliest line
\* terminator it contains, so no emitted line contains a \r or a \n byte.
C29_NoTerminatorInLine ==
    \A j \in 1..Len(lines_out) :
        \A k \in 1..Len(lines_out[j]) : ~IsTerminator(lines_out[j][k].v)


\* A reconnection attempt of thread t ends in failure (lines 408-415)
AttemptFailed(t) ==
    pc[t] = "rc_reopen" /\ pc'[t] /= "rc_reopen" /\ ev_status' = ev_status

\* Claim C25: when a reconnection attempt fails with the attempt cap reached,
\* an error event is emitted to the subscribers.
C25_ExhaustionReported ==
    [][\A t \in Reconnectors :
         (AttemptFailed(t) /\ reconnect_attempts >= max_reconnect_attempts)
             => ev_error' > ev_error]_vars


-----------------------------------------------------------------------------
(* SpecStats: the connection of Spec with callers that also pass bytes to  *)
(* send().  With add_newline set, data.endswith('\n') of line 198 raises   *)
(* TypeError on a bytes object, and the handler of lines 206-210 runs:     *)
(* it emits an error event and does self.stats["errors"] += 1 without      *)
(* taking stats_lock, a read and a store that other threads' increments    *)
(* may come between.                                                       *)

\* lines 194-209: connected, the TypeError, the error event, and the read of
\* stats["errors"]
SendRaise ==
    /\ nsends < MaxSends
    /\ send_errors = -1
    /\ connected
    /\ nsends' = nsends + 1
    /\ ev_error' = ev_error + 1
    /\ send_errors' = stats.errors
    /\ UNCHANGED <<regVars, trackerVars, stale, now, last_activity, error_run, parserVars, connVars,
                   written, accepted, send_result, ev_reconnect, ev_status, openHist,
                   ev_data, opened, nfaults, ncloses>>

\* lines 209-210: the store of the incremented value, and return False
SendStore ==
    /\ send_errors >= 0
    /\ stats' = [stats EXCEPT !.errors = send_errors + 1]
    /\ send_errors' = -1
    /\ send_result' = "error"
    /\ UNCHANGED <<regVars, trackerVars, stale, now, last_activity, error_run, parserVars,
                   connected, running, serial, auto_reconnect, reconnect_attempts,
                   write_queue, stall_armed, pc, cerr, written, accepted, ev_reconnect,
                   ev_status, ev_error, openHist, ev_data, opened, nsends, nfaults, ncloses>>

\* lines 222-225: serial.read returns b'' when nothing arrives within the
\* port's timeout of 0.1 s: an error-free read that leaves consecutive_errors
\* as it is, the reset of line 227 being inside `if data:`
ReadEmpty ==
    /\ pc["read"] = "loop" /\ running /\ serial = "open"
    /\ error_run["read"] > 0
    /\ error_run' = [error_run EXCEPT !["read"] = 0]
    /\ UNCHANGED <<regVars, trackerVars, stale, now, last_activity, send_errors, parserVars,
                   connVars, histVars>>

\* The connection is opened and used, neither closed nor found stalled
NextStats ==
    \/ OpenStart
    \/ OpenFinish
    \/ \E exc \in OpenExceptions : OpenFail(exc)
    \/ \E d \in SendData, nl \in BOOLEAN : Send(d, nl)
    \/ SendRaise
    \/ SendStore
    \/ \E t \in Reconnectors : RcIncr(t)
    \/ \E t \in Reconnectors : RcEmit(t)
    \/ \E t \in Reconnectors : RcReopenOk(t)
    \/ \E t \in Reconnectors : RcReopenFail(t)
    \/ \E t \in Timers : TimerFire(t)
    \/ \E n \in 1..2, k \in 0..1 : ReadOk(n, k)
    \/ ReadEmpty
    \/ \E kind \in FaultKinds : ReadFault(kind)
    \/ WriteOk
    \/ WriteDrop
    \/ \E kind \in FaultKinds : WriteFault(kind)

SpecStats == Init /\ [][NextStats]_vars

\* Claim C24: no numeric counter of the statistics record ever decreases.
C24_CountersNeverDecrease ==
    [][\A f \in DOMAIN stats : stats'[f] >= stats[f]]_vars

\* Claim C28: no update of the statistics record is lost: once every handler
\* has finished its increment, the error counter equals the number of errors
\* reported and the sent-packet counter the number of items written.
C28_NoLostUpdate ==
    send_errors = -1 =>
        /\ stats.errors = ev_error
        /\ stats.packets_sent = Len(written)


-----------------------------------------------------------------------------
(* SpecStall: the connection of Spec with time.  The stall timer fires     *)
(* STALLED_CONNECTION_TIMEOUT / 2 seconds after it was started; time is    *)
(* counted in those intervals, and reads and writes happen between them.   *)

STALLED_CONNECTION_TIMEOUT == 30

StallInterval == STALLED_CONNECTION_TIMEOUT \div 2

MaxTicks == 5

\* lines 440-443: time_since_activity > STALLED_CONNECTION_TIMEOUT
IsStalled(t, activity) == t - activity > STALLED_CONNECTION_TIMEOUT

\* _check_stalled_connection (lines 431-457) when its timer fires, one
\* interval after it was started
StallTimerFires ==
    /\ stall_armed /\ pc["stall"] = "idle"
    /\ now < MaxTicks * StallInterval
    /\ now' = now + StallInterval
    /\ IF ~connected \/ ~running
       THEN /\ stall_armed' = FALSE
            /\ UNCHANGED <<stats, pc>>
       ELSE IF IsStalled(now', last_activity)
       THEN /\ stats' = Bump(stats, "stalled_detected", 1)
            /\ IF auto_reconnect /\ RcEnter("stall") = "rc_incr"
               THEN /\ pc' = [pc EXCEPT !["stall"] = "rc_incr"]
                    /\ stall_armed' = FALSE
               ELSE /\ pc' = pc
                    /\ stall_armed' = running
       ELSE /\ stall_armed' = running
            /\ UNCHANGED <<stats, pc>>
    /\ UNCHANGED <<regVars, trackerVars, stale, last_activity, send_errors, error_run, parserVars,
                   connected, running, serial, auto_reconnect, reconnect_attempts,
                   write_queue, cerr, histVars>>

\* The connection is opened and used, not closed; its port raises no
\* exception in the pumps
NextStall ==
    \/ OpenStart
    \/ OpenFinish
    \/ \E d \in SendData, nl \in BOOLEAN : Send(d, nl)
    \/ \E t \in Reconnectors : RcIncr(t)
    \/ \E t \in Reconnectors : RcEmit(t)
    \/ \E t \in Reconnectors : RcReopenOk(t)
    \/ \E t \in Reconnectors : RcReopenFail(t)
    \/ \E t \in Timers : TimerFire(t)
    \/ \E n \in 1..2, k \in 0..1 : ReadOk(n, k)
    \/ WriteOk
    \/ WriteDrop
    \/ StallTimerFires

SpecStall == Init /\ [][NextStall]_vars

\* A connection with auto_reconnect on which no byte has been read or written
\* since it was opened
SilentSinceOpen ==
    auto_reconnect /\ stats.bytes_received = 0 /\ stats.bytes_sent = 0

\* Claim C23: for a period of silence of an open connection with
\* auto_reconnect, stalled detection fires once (the counter goes from 0 to
\* 1) with a reconnect-attempt event numbered 1, and the counter is only
\* incremented when the connection is marked open and last_activity is older
\* than the timeout.
C23_StallFiresOnce ==
    /\ [](SilentSinceOpen =>
            /\ stats.stalled_detected <= 1
            /\ \A k \in 1..Len(ev_reconnect) : ev_reconnect[k] = 1)
    /\ [][stats'.stalled_detected > stats.stalled_detected =>
            connected /\ IsStalled(now', last_activity)]_vars


\* The handler of an exception in pump t calls _attempt_reconnect: the pump
\* enters the procedure, or the procedure returns at once and the pump resets
\* consecutive_errors (lines 269-272, 328-331)
PumpInvokesReconnect(t) ==
    /\ nfaults' = nfaults + 1
    /\ cerr'[t] /= cerr[t]
    /\ pc'[t] = "rc_incr" \/ cerr'[t] = 0

\* Claim C26: a pump invokes the reconnection procedure only on the third or
\* a later error in a row, with no error-free read or write between them, and
\* only if auto_reconnect is set; without it a pump never leaves its loop.
C26_ReconnectAfterThreeInARow ==
    /\ [][\A t \in Pumps :
            PumpInvokesReconnect(t) =>
                auto_reconnect /\ error_run[t] + 1 >= max_consecutive_errors]_vars
    /\ [](~auto_reconnect => \A t \in Pumps : pc[t] \in {"off", "loop", "done"})


-----------------------------------------------------------------------------
(* SpecRetry: SpecStats with the scheduling the threads have: a started    *)
(* threading.Timer fires after its interval, and a thread that has entered *)
(* _attempt_reconnect goes on to line 375.                                  *)

SpecRetry ==
    /\ Init /\ [][NextStats]_vars
    /\ \A t \in Timers : WF_vars(TimerFire(t))
    /\ \A t \in Reconnectors : WF_vars(RcIncr(t))

PendingTimers == {u \in Timers : pc[u] = "pending"}

\* Claim C27: a failed reconnection attempt that leaves the attempt count
\* below max_reconnect_attempts leaves a retry timer pending and is not
\* continued by the failing thread itself, and a pending retry is eventually
\* followed by a further attempt; a failed attempt at the cap starts no timer.
C27_RetryScheduled ==
    /\ [][\A t \in Reconnectors :
            AttemptFailed(t) =>
                /\ ~InReconnect(t)'
                /\ IF reconnect_attempts < max_reconnect_attempts
                   THEN PendingTimers' /= {}
                   ELSE PendingTimers' \subseteq PendingTimers]_vars
    /\ \A n \in 0..(max_reconnect_attempts - 1) :
          (PendingTimers /= {} /\ reconnect_attempts = n) ~> (reconnect_attempts > n)

\* The thread of a retry timer has entered a further attempt after a failed one
C27_Witness ==
    \E u \in Timers :
        pc[u] = "rc_incr" /\ reconnect_attempts >= 1 /\ reconnect_attempts < max_reconnect_attempts


-----------------------------------------------------------------------------
(* SpecCustom: a stream fed in chunks to a DataParser in custom mode, its  *)
(* pattern set by set_custom_pattern("A")                                  *)

\* re.compile(b"A")
CustomPattern == <<65>>

\* The pattern, a literal, matches the bytes of buf that start at index k
MatchesAt(buf, pat, k) ==
    /\ k + Len(pat) - 1 <= Len(buf)
    /\ \A j \in 1..Len(pat) : buf[k + j - 1].v = pat[j]

\* pattern.finditer(buf): match.end() of the non-overlapping matches found
\* from index k on, from left to right
RECURSIVE MatchEnds(_, _, _)
MatchEnds(buf, pat, k) ==
    IF k + Len(pat) - 1 > Len(buf) THEN <<>>
    ELSE IF MatchesAt(buf, pat, k)
         THEN <<k + Len(pat) - 1>> \o MatchEnds(buf, pat, k + Len(pat))
         ELSE MatchEnds(buf, pat, k + 1)

\* buf[n:]
DropFirst(buf, n) == IF n >= Len(buf) THEN <<>> ELSE SubSeq(buf, n + 1, Len(buf))

\* The loop of lines 203-211: the matches are those of the buffer as it was
\* when finditer was called (orig); each iteration emits group(0) and slices
\* the buffer as it is now (cur) by the match's end in orig
RECURSIVE CustomLoop(_, _, _, _)
CustomLoop(orig, pat, ends, cur) ==
    IF ends = <<>> THEN [lines |-> <<>>, buffer |-> cur]
    ELSE LET e == Head(ends)
             r == CustomLoop(orig, pat, Tail(ends), DropFirst(cur, e))
         IN  [lines |-> <<SubSeq(orig, e - Len(pat) + 1, e)>> \o r.lines,
              buffer |-> r.buffer]

\* _process_custom (lines 194-213) with a pattern set
ProcessCustom(buf, pat) == CustomLoop(buf, pat, MatchEnds(buf, pat, 1), buf)

\* parser.process_data(chunk) in custom mode with the next n bytes of the stream
FeedCustom(n) ==
    /\ nchunks < MaxChunks
    /\ pos + n <= Len(stream)
    /\ (nchunks = MaxChunks - 1 => pos + n = Len(stream))
    /\ LET r == ProcessCustom(parser_buffer \o Tag(SubSeq(stream, pos + 1, pos + n), pos),
                              CustomPattern)
       IN  /\ parser_buffer' = r.buffer
           /\ lines_out' = lines_out \o r.lines
    /\ pos' = pos + n
    /\ nchunks' = nchunks + 1
    /\ last_n' = n
    /\ UNCHANGED <<stream, buffer, max_buffer_size, connVars, histVars, mgrVars>>

NextCustom == \E n \in 0..Len(AtGmrStream) : FeedCustom(n)

SpecCustom == InitParser /\ [][NextCustom]_vars

\* The buffer process_data works on in a step: what was buffered, then the chunk
Processed == parser_buffer \o Tag(SubSeq(stream, pos + 1, pos'), pos)

\* The bytes of buf that follow the end of the last match of pat in it
AfterLastMatch(buf, pat) ==
    LET ends == MatchEnds(buf, pat, 1)
    IN  IF ends = <<>> THEN buf ELSE DropFirst(buf, ends[Len(ends)])

\* Claim C30: in custom mode, after a call of process_data the buffer holds
\* exactly the bytes that follow the end of the last match, whatever the
\* number of matches, and every match has been emitted once, in order.
C30_BufferAfterLastMatch ==
    [][nchunks' = nchunks + 1 =>
          /\ parser_buffer' = AfterLastMatch(Processed, CustomPattern)
          /\ Len(lines_out') = Len(lines_out) + Len(MatchEnds(Processed, CustomPattern, 1))
          /\ \A k \in (Len(lines_out) + 1)..Len(lines_out') :
                [j \in 1..Len(lines_out'[k]) |-> lines_out'[k][j].v] = CustomPattern]_vars


-----------------------------------------------------------------------------
(* SpecBinary: a stream fed in chunks to a DataParser in binary mode       *)

\* b'\x02' and b'\x03'
STX == 2
ETX == 3

MaxBinLen == 5

BinStreams == SeqsUpTo({STX, ETX, 65}, MaxBinLen)

\* buf.find(b) with no regard to the start index
FindAnywhere(buf, b, start) ==
    IF \E k \in 1..Len(buf) : buf[k].v = b
    THEN Min({k \in 1..Len(buf) : buf[k].v = b}) - 1
    ELSE -1

\* buf.find(b, start): the 0-based index of the first b at or after the
\* 0-based index start, -1 if there is none
Find(buf, b, start) ==
    IF \E k \in (start + 1)..Len(buf) : buf[k].v = b
    THEN Min({k \in (start + 1)..Len(buf) : buf[k].v = b}) - 1
    ELSE -1

\* binascii.hexlify: two hexadecimal digits for each byte
RECURSIVE Hexlify(_)
Hexlify(bytes) ==
    IF bytes = <<>> THEN <<>>
    ELSE <<Head(bytes) \div 16, Head(bytes) % 16>> \o Hexlify(Tail(bytes))

Values(cells) == [k \in 1..Len(cells) |-> cells[k].v]

\* f"[BIN] {packet_hex}"
BinMessage(packet) == [prefix |-> "[BIN] ", hex |-> Hexlify(Values(packet))]

\* _process_binary (lines 116-143)
RECURSIVE ProcessBinary(_)
ProcessBinary(buf) ==
    IF HasByte(buf, STX) /\ HasByte(buf, ETX)
    THEN LET start == Find(buf, STX, 0)
             end == Find(buf, ETX, start)
         IN  IF end > start
             THEN LET r == ProcessBinary(SubSeq(buf, end + 2, Len(buf)))
                  IN  [lines |-> <<BinMessage(SubSeq(buf, start + 2, end))>> \o r.lines,
                       buffer |-> r.buffer]
             ELSE [lines |-> <<>>, buffer |-> buf]
    ELSE [lines |-> <<>>, buffer |-> buf]

InitBinary ==
    /\ stream \in BinStreams
    /\ pos = 0
    /\ nchunks = 0
    /\ last_n = 0
    /\ parser_buffer = <<>>
    /\ buffer = <<>>
    /\ lines_out = <<>>
    /\ max_buffer_size = MAX_BUFFER_SIZE
    /\ InitConnection
    /\ RegistryIdle

\* parser.process_data(chunk) in binary mode with the next n bytes of the stream
FeedBinary(n) ==
    /\ nchunks < MaxChunks
    /\ pos + n <= Len(stream)
    /\ (nchunks = MaxChunks - 1 => pos + n = Len(stream))
    /\ LET r == ProcessBinary(parser_buffer \o Tag(SubSeq(stream, pos + 1, pos + n), pos))
       IN  /\ parser_buffer' = r.buffer
           /\ lines_out' = lines_out \o r.lines
    /\ pos' = pos + n
    /\ nchunks' = nchunks + 1
    /\ last_n' = n
    /\ UNCHANGED <<stream, buffer, max_buffer_size, connVars, histVars, mgrVars>>

NextBinary == \E n \in 0..MaxBinLen + 1 : FeedBinary(n)

SpecBinary == InitBinary /\ [][NextBinary]_vars

\* The frames of a byte sequence, read from left to right: outside a frame
\* bytes are skipped up to a 0x02; inside, bytes are collected up to the first
\* 0x03.  inside is FALSE or TRUE, frame the bytes collected, from the index of
\* the first byte not yet accounted to a complete frame.
RECURSIVE ScanFrames(_, _, _, _, _)
ScanFrames(s, k, inside, frame, from) ==
    IF k > Len(s) THEN [frames |-> <<>>, rest |-> from]
    ELSE IF ~inside
         THEN ScanFrames(s, k + 1, s[k] = STX, <<>>, from)
         ELSE IF s[k] = ETX
              THEN LET r == ScanFrames(s, k + 1, FALSE, <<>>, k + 1)
                   IN  [frames |-> <<frame>> \o r.frames, rest |-> r.rest]
              ELSE ScanFrames(s, k + 1, TRUE, Append(frame, s[k]), from)

FramesRead == ScanFrames(SubSeq(stream, 1, pos), 1, FALSE, <<>>, 1)

\* Claim C31: in binary mode the messages emitted are exactly the complete
\* frames read so far, each the bytes between a 0x02 and the first 0x03 after
\* it, once each; the bytes of an unterminated frame stay in the buffer.
C31_CompleteFramesOnly ==
    /\ Len(lines_out) = Len(FramesRead.frames)
    /\ \A k \in 1..Len(lines_out) :
          lines_out[k] = [prefix |-> "[BIN] ", hex |-> Hexlify(FramesRead.frames[k])]
    /\ Values(parser_buffer) = SubSeq(stream, FramesRead.rest, pos)

\* A frame cut by a chunk boundary has been emitted after its 0x03 arrived, and
\* a later unterminated frame is waiting in the buffer
C31_Witness ==
    /\ nchunks >= 2
    /\ Len(lines_out) = 1
    /\ lines_out[1].hex /= <<>>
    /\ last_n = 1
    /\ stream[pos] = ETX
    /\ pos < Len(stream)


\* Claim C32: a newly detected device is auto-connected only if the port is
\* not flaky at detection time, and connect_device on a device that has been
\* flagged flaky makes no connection attempt and changes no counter.
C32_FlakyNotConnected ==
    /\ [][(~device.present /\ device'.present /\ device'.connection_attempts > 0)
             => ~IsDeviceFlaky(NoDevice, connection_history)]_vars
    /\ [][(flagged /\ device.present /\ device'.present)
             => /\ device'.connection_attempts = device.connection_attempts
                /\ device'.connection_failures = device.connection_failures
                /\ device'.connected => device.connected]_vars


\* Claim C33: a Connection that reports connected = true holds an open port
\* handle (stated for the states in which no open() or close() call is in
\* progress): it does not report connected while the handle is released
\* during a reconnection attempt, after a failed one, or after the last one.
C33_ConnectedHoldsHandle ==
    (pc["api"] = "idle" /\ connected) => serial = "open"


\* close() has been called and has returned, and no call is in progress
CloseReturned == ncloses >= 1 /\ pc["api"] = "idle"

\* Claim C34: after close() has returned the Connection stays closed: no port
\* handle is opened, no connection-status-changed(true) and no
\* reconnect-attempt event is emitted.
C34_StaysClosed ==
    [][CloseReturned =>
          /\ serial' = "open" => serial = "open"
          /\ ev_reconnect' = ev_reconnect
          /\ Len(ev_status') > Len(ev_status) => ~ev_status'[Len(ev_status')]
          /\ connected' => connected]_vars


\* A reconnection attempt of thread t ends with the port reopened (lines 389-406)
AttemptSucceeded(t) ==
    pc[t] = "rc_reopen" /\ pc'[t] /= "rc_reopen" /\ ev_status' /= ev_status

\* Claim C35: at most one reconnection procedure is in progress at any time,
\* the reconnect-attempt events carry the numbers 1, 2, 3, ... with no
\* duplicate, and a reopen never replaces a handle that is open.
C35_OneReconnectionAtATime ==
    /\ [](/\ Cardinality({t \in Reconnectors : InReconnect(t)}) <= 1
          /\ \A k \in 1..Len(ev_reconnect) : ev_reconnect[k] = k)
    /\ [][\A t \in Reconnectors : AttemptSucceeded(t) => serial /= "open"]_vars


\* Claim C36: every item taken from the outbound queue is written to the port
\* or has an error reported for it (error event and error counter); none is
\* discarded silently.
C36_NoSilentDiscard ==
    [][Len(write_queue') < Len(write_queue)
          => \/ Len(written') > Len(written)
             \/ ev_error' > ev_error /\ stats'.errors > stats.errors]_vars


\* Claim C37: no data-received event is emitted before the
\* connection-status-changed(true) event of the open() that started the read
\* pump.
C37_StatusBeforeData ==
    ev_data > 0 => (ev_status /= <<>> /\ ev_status[1])


-----------------------------------------------------------------------------
(* open() and close() called any number of times on one SerialConnection:  *)
(* the threads open() starts (lines 107-113) and close() joins (159-170)   *)

MaxStatusEvents == 4

\* The thread held in read_thread / write_thread is alive
PumpLive(p) == pc[p] \notin {"idle", "done"}

\* lines 109-113: read_thread / write_thread is assigned a new started thread;
\* the thread it held, if alive, runs on and is referenced nowhere
StartedBeside(p) == IF PumpLive(p) THEN 1 ELSE 0

\* lines 86-116 of an open() that is not the first call on the object: there
\* is no test of connected, running or the threads before the new handle is
\* opened and the new pumps and stall timer are started
OpenAgain ==
    /\ pc["api"] = "idle" /\ opened
    /\ Len(ev_status) < MaxStatusEvents
    /\ reconnect_attempts' = 0
    /\ serial' = "open"
    /\ running' = TRUE
    /\ stall_armed' = TRUE
    /\ stale' = [p \in Pumps |-> stale[p] + StartedBeside(p)]
    /\ pc' = [pc EXCEPT !["api"] = "opening", !["read"] = "loop", !["write"] = "loop"]
    /\ UNCHANGED <<regVars, trackerVars, now, last_activity, send_errors, error_run,
                   parserVars, connected, auto_reconnect, write_queue, stats, cerr,
                   written, accepted, send_result, ev_reconnect, ev_status, ev_error,
                   openHist, ev_data, opened, nsends, nfaults, ncloses>>

\* lines 218, 289: a pump of an earlier open() tests `while self.running` and
\* ends when it is false
StaleExit(p) ==
    /\ stale[p] > 0 /\ ~running
    /\ stale' = [stale EXCEPT ![p] = @ - 1]
    /\ UNCHANGED <<regVars, trackerVars, now, last_activity, send_errors, error_run,
                   parserVars, connVars, histVars>>

NextThreads ==
    \/ OpenStart
    \/ OpenFinish
    \/ OpenAgain
    \/ CloseBegin
    \/ CloseRelease
    \/ CloseFinish
    \/ \E t \in Pumps : PumpExit(t)
    \/ \E t \in Pumps : StaleExit(t)

SpecThreads == Init /\ [][NextThreads]_vars

\* The live threads running the loop of pump p
LivePumps(p) == stale[p] + (IF PumpLive(p) THEN 1 ELSE 0)

\* Claim C38: at any time a Connection has at most one live read pump and at
\* most one live write pump, for every sequence of open() and close() calls.
C38_OnePumpEach ==
    \A p \in Pumps : LivePumps(p) <= 1


\* The record has no failed attempt, and the port's events come from
\* connections and disconnections more than min_stable_connection_time apart
\* (the events one disconnection records carry one time)
StableUse ==
    /\ device.connection_failures = 0
    /\ \A k \in 1..(Len(connection_history) - 1) :
          \/ connection_history[k + 1].timestamp = connection_history[k].timestamp
          \/ connection_history[k + 1].timestamp - connection_history[k].timestamp
               > min_stable_connection_time

\* Claim C39: a device whose attempts all succeed and whose connections and
\* disconnections are all more than min_stable_connection_time apart is never
\* reported flaky, and each disconnection of a connected device adds exactly
\* one "disconnect" event to the port's history.
C39_StableNeverFlaky ==
    /\ [](StableUse => flaky_result /= "true")
    /\ [][(device.connected /\ ~device'.connected)
             => CountAction(connection_history', "disconnect")
                  = CountAction(connection_history, "disconnect") + 1]_vars


\* Claim C40: for every device record, after any sequence of scans,
\* connect_device and disconnect_device calls, 0 <= connection_failures <=
\* connection_attempts; a connect_device call that is not refused adds exactly
\* one attempt and at most one failure, whatever the internal retries.
C40_FailuresWithinAttempts ==
    /\ [](/\ 0 <= device.connection_failures
          /\ device.connection_failures <= device.connection_attempts)
    /\ [][device'.present =>
            /\ device'.connection_attempts /= device.connection_attempts
                 => device'.connection_attempts = device.connection_attempts + 1
            /\ device'.connection_failures /= device.connection_failures
                 => /\ device'.connection_failures = device.connection_failures + 1
                    /\ device'.connection_attempts = device.connection_attempts + 1
            /\ (device'.connected /\ ~device.connected)
                 => /\ device'.connection_attempts = device.connection_attempts + 1
                    /\ device'.connection_failures = device.connection_failures]_vars

\* a record with three calls counted, two of them failed after their retries
C40_Witness ==
    /\ device.present /\ device.connected
    /\ device.connection_attempts = 3
    /\ device.connection_failures = 2

=============================================================================
